---- MODULE Spec2Model ----
(***************************************************************************)
(* CASCADE DELETE data restoration engine (generate_missing_data_sql.py)   *)
(* and its two entry points (main, export_earl_denver_data).               *)
(*                                                                         *)
(* Python values are modelled as strings: a str value is its text, an int  *)
(* value is its decimal text (the Python type of a value is the type of    *)
(* its column, ColKind), and None is the distinguished value None.  SQL    *)
(* text is modelled as text: statements are the strings the code builds.   *)
(* A statement record has the fields of the Python dict; an INSERT also    *)
(* carries literals (the VALUES list of its text, in column order) and     *)
(* kinds (the Python type of each value).                                  *)
(***************************************************************************)
EXTENDS Integers, Sequences, FiniteSets, TLC

VARIABLES
  pc,                     \* position of the entry point / orchestration function
  run,                    \* 1 = first run, 2 = re-run after the script was applied
  entry,                  \* "main" or "export"
  fk_constraints,         \* catalog: the FOREIGN KEY constraints (SHOW CONSTRAINTS rows)
  pk_undetected,          \* catalog: tables whose PRIMARY KEY details cannot be parsed
  sourceDb,               \* restore cluster: table -> rows in primary-key order
  targetDb,               \* current production: table -> rows
  prod_current_conn,      \* "ok", "broken" (every query raises) or "none" (None)
  use_conflict_resolution,
  cascade_graph,          \* sequence of <<parent_table, edges>> in dict insertion order
  processing_queue,
  visited_tables,
  processed_tables,
  insert_statements_seen,
  restored_records,
  skipped_records,
  statement_buffer,
  affected_records,
  level_stats,
  optimized_statements,
  fixed_statements,
  sql_file,               \* lines written to the script file so far
  dequeue_log,            \* history: the queue items dequeued in this run, with what was done
  applied_rows,           \* history: the (table, row) pairs the executed script inserted
  source_fault,           \* restore cluster: the table whose SELECT raises, or None
  restore_conn_status,    \* restore connection: "idle" or "aborted" (transaction failed)
  possible_affected_subtables, \* result of count_affected_subtables_recursive
  table_columns,          \* catalog: the columns of each table by ordinal position
  prod_db_url,            \* the cluster behind PROD_READ_URL: what connecting to it gives
  retry_count,            \* failed reconnection attempts after the operator prompt
  analyzer_pc,            \* find_accounts_with_missing_emails: position of main / safe_delete_clients
  argv,                   \* sys.argv[1:]
  mode,                   \* 'analyze' or 'delete'
  dry_run,
  csv_file,               \* the client ids in missing_emails.csv
  virtual_account_holder, \* committed rows of account.virtual_account_holder
  entity_entity,          \* committed rows of entity.entity
  account_backup_table,   \* account.virtual_account_holder_deletion_backup_<timestamp>
  entity_backup_table,    \* entity.entity_deletion_backup_<timestamp>
  client_ids,             \* the ids safe_delete_clients loaded
  clients_with_accounts,  \* result of the account check
  executed,               \* history: the statements the analyzer's connection executed
  rollback_file,          \* the rollback script has been written
  step_fault,             \* the function of the execute path that raises, or None
  removed,                \* history: the rows delete_client_records removed
  other_sessions,         \* transactions committed by other sessions so far
  bene_pc,                \* position of insert_back_beneficiaries.main
  uat_restore,            \* the UAT restore database
  uat_cluster,            \* the UAT cluster: the committed rows
  cluster_transaction,    \* the transaction open on uat_cluster_connection
  cluster_log,            \* history: statements and calls on uat_cluster_connection
  bene_fault              \* the statement or query that raises, or None

engineVars == <<pc, run, entry, fk_constraints, pk_undetected, sourceDb, targetDb,
                prod_current_conn, use_conflict_resolution, cascade_graph,
                processing_queue, visited_tables, processed_tables,
                insert_statements_seen, restored_records, skipped_records,
                statement_buffer, affected_records, level_stats,
                optimized_statements, fixed_statements, sql_file, dequeue_log,
                applied_rows, source_fault, restore_conn_status,
                possible_affected_subtables, table_columns,
                prod_db_url, retry_count>>

analyzerVars == <<analyzer_pc, argv, mode, dry_run, csv_file, virtual_account_holder,
                  entity_entity, account_backup_table, entity_backup_table, client_ids,
                  clients_with_accounts, executed, rollback_file, step_fault, removed,
                  other_sessions>>

beneficiaryVars == <<bene_pc, uat_restore, uat_cluster, cluster_transaction,
                     cluster_log, bene_fault>>

vars == <<engineVars, analyzerVars, beneficiaryVars>>

inputVars == <<entry, fk_constraints, pk_undetected, sourceDb,
               prod_db_url, use_conflict_resolution>>

(***************************************************************************)
(* Bounds                                                                  *)
(***************************************************************************)
MaxLevel == 5        \* BFS items deeper than this level are not dequeued
MaxRuns == 2         \* the engine is run at most twice on the same source

(***************************************************************************)
(* Generic helpers                                                         *)
(***************************************************************************)
None == "None"

Range(s) == {s[i] : i \in 1..Len(s)}

RECURSIVE Join(_, _)
\* sep.join(parts)
Join(parts, sep) ==
  IF Len(parts) = 0 THEN ""
  ELSE IF Len(parts) = 1 THEN parts[1]
  ELSE parts[1] \o sep \o Join(Tail(parts), sep)

RECURSIVE Concat(_)
\* concatenation of a sequence of sequences
Concat(ss) == IF Len(ss) = 0 THEN <<>> ELSE Head(ss) \o Concat(Tail(ss))

RECURSIVE Escape(_)
\* value.replace("'", "''")
Escape(s) ==
  IF Len(s) = 0 THEN ""
  ELSE IF Head(s) = "'" THEN "''" \o Escape(Tail(s))
  ELSE Head(s) \o Escape(Tail(s))

RECURSIVE LStripQuote(_)
LStripQuote(s) ==
  IF Len(s) > 0 /\ Head(s) = "'" THEN LStripQuote(Tail(s)) ELSE s

RECURSIVE RStripQuote(_)
RStripQuote(s) ==
  IF Len(s) > 0 /\ SubSeq(s, Len(s), Len(s)) = "'"
  THEN RStripQuote(SubSeq(s, 1, Len(s) - 1)) ELSE s

\* val.strip("'")
StripQuotes(s) == RStripQuote(LStripQuote(s))

StartsWith(s, p) == Len(s) >= Len(p) /\ SubSeq(s, 1, Len(p)) = p
EndsWith(s, p) == Len(s) >= Len(p) /\ SubSeq(s, Len(s) - Len(p) + 1, Len(s)) = p

\* s.find(sub) + 1: the position of the first occurrence of sub in s, 0 when
\* there is none
Find(s, sub) ==
  LET idx == { i \in 1..(Len(s) - Len(sub) + 1) : SubSeq(s, i, i + Len(sub) - 1) = sub }
  IN IF idx = {} THEN 0 ELSE CHOOSE i \in idx : \A j \in idx : i <= j

\* s.split(sub)[0]
Before(s, sub) == IF Find(s, sub) = 0 THEN s ELSE SubSeq(s, 1, Find(s, sub) - 1)

\* the text after the first occurrence of sub (sub occurs in s)
After(s, sub) == SubSeq(s, Find(s, sub) + Len(sub), Len(s))

RECURSIVE Strip(_)
\* s.strip() for blanks
Strip(s) ==
  IF Len(s) > 0 /\ Head(s) = " " THEN Strip(Tail(s))
  ELSE IF Len(s) > 0 /\ SubSeq(s, Len(s), Len(s)) = " " THEN Strip(SubSeq(s, 1, Len(s) - 1))
  ELSE s

\* {} (an empty Python dict)
EmptyDict == [x \in {} |-> {}]

\* dict.get(key, default) for a function used as a Python dict
DictGet(d, k, default) == IF k \in DOMAIN d THEN d[k] ELSE default

\* d[k] = v for a function used as a Python dict
DictPut(d, k, v) == [x \in (DOMAIN d) \cup {k} |-> IF x = k THEN v ELSE d[x]]

(***************************************************************************)
(* The catalog of the modelled database                                    *)
(***************************************************************************)
ENTITY == "entity.entity"
PERSON == "person.person"
ACCOUNT == "account.physical_account"
TXN == "account.transaction"

\* get_all_tables: ORDER BY table_schema, table_name
get_all_tables == <<ACCOUNT, TXN, ENTITY, PERSON>>

TableSet == Range(get_all_tables)

\* get_table_columns: ORDER BY ordinal_position; the hash-shard column of
\* entity.entity is a hidden computed column, which SELECT * does not return
get_table_columns(table) ==
  IF table \in DOMAIN table_columns THEN table_columns[table] ELSE <<>>

\* the catalog with the key column of every table in the first position
KeyFirstColumns ==
  [t \in TableSet |->
     CASE t = ENTITY -> <<"entity_id", "crdb_internal_entity_id_shard_16">>
       [] t = PERSON -> <<"person_id", "email">>
       [] t = ACCOUNT -> <<"account_id", "person_id", "custodian_account_id", "custodian_id">>
       [] t = TXN -> <<"transaction_id", "account_id", "entity_id", "parent_id">>]

\* the catalog of a physical-account table whose owner column precedes its key
OwnerFirstColumns ==
  [KeyFirstColumns EXCEPT
     ![ACCOUNT] = <<"person_id", "account_id", "custodian_account_id", "custodian_id">>]

\* Python type of the values psycopg2 returns for a column
ColKind(table, column) == IF column = "custodian_id" THEN "int" ELSE "str"

\* the PRIMARY KEY constraint of each table as the catalog holds it
CatalogPrimaryKey(table) ==
  CASE table = ENTITY -> <<"entity_id">>
    [] table = PERSON -> <<"person_id">>
    [] table = ACCOUNT -> <<"account_id">>
    [] table = TXN -> <<"transaction_id">>
    [] OTHER -> <<>>

\* the details column of SHOW CONSTRAINTS for a foreign key
FkDetails(local, parent, ref) ==
  "FOREIGN KEY (" \o local \o ") REFERENCES " \o parent \o "(" \o ref \o ") ON DELETE CASCADE"

\* a FOREIGN KEY constraint: what the catalog holds (child table, columns,
\* referenced table, rule) and the details text SHOW CONSTRAINTS gives for it
FK(name, child, local, parent, ref) ==
  [constraint_name |-> name, table |-> child, local_column |-> local,
   referenced_table |-> parent, referenced_column |-> ref, delete_rule |-> "CASCADE",
   details |-> FkDetails(local, parent, ref)]

FkPersonEntity == FK("fk_person_entity", PERSON, "person_id", ENTITY, "entity_id")
FkAccountPerson == FK("fk_account_person", ACCOUNT, "person_id", PERSON, "person_id")
FkTxnAccount == FK("fk_txn_account", TXN, "account_id", ACCOUNT, "account_id")
FkTxnAccountDup == FK("fk_txn_account_2", TXN, "account_id", ACCOUNT, "account_id")
FkTxnEntity == FK("fk_txn_entity", TXN, "entity_id", ENTITY, "entity_id")
FkTxnParent == FK("fk_txn_parent", TXN, "parent_id", TXN, "transaction_id")
\* the diamond constraint with details texts that do not have the expected
\* shape: no blank before the column list, and lower-case keywords
FkTxnEntityNoBlank ==
  [FkTxnEntity EXCEPT
     !.details = "FOREIGN KEY(entity_id) REFERENCES entity.entity(entity_id) ON DELETE CASCADE"]
FkTxnEntityLower ==
  [FkTxnEntity EXCEPT
     !.details = "foreign key (entity_id) references entity.entity(entity_id) on delete cascade"]

\* the schemas the model is run on: a chain entity -> person -> account ->
\* transaction, optionally with a second (duplicate) constraint on the same
\* column, a diamond (transaction also a direct child of entity) and a
\* self-referencing table
\* a second constraint from account.transaction to account.physical_account
\* whose key has two columns; its second column pair has no catalog row of
\* its own in this model
FkTxnAccountOwner ==
  [FkTxnAccount EXCEPT
     !.constraint_name = "fk_txn_account_owner",
     !.details = "FOREIGN KEY (account_id, entity_id) REFERENCES "
                   \o "account.physical_account(account_id, person_id) ON DELETE CASCADE"]

SchemaChoices ==
  { {FkPersonEntity, FkAccountPerson, FkTxnAccount} \cup extra :
      extra \in { {}, {FkTxnAccountDup}, {FkTxnEntity}, {FkTxnParent},
                  {FkTxnEntity, FkTxnParent}, {FkTxnEntityNoBlank}, {FkTxnEntityLower},
                  {FkTxnAccountOwner} } }

PkUndetectedChoices == { {}, {TXN}, {ACCOUNT} }


\* the order in which SHOW CONSTRAINTS lists the constraints of a table
ConstraintOrder ==
  <<FkAccountPerson, FkPersonEntity, FkTxnAccount, FkTxnAccountDup, FkTxnAccountOwner,
    FkTxnEntity, FkTxnEntityNoBlank, FkTxnEntityLower, FkTxnParent>>

RECURSIVE FilterSeq(_, _)
\* the subsequence of s of the elements that are in the set keep
FilterSeq(s, keep) ==
  IF Len(s) = 0 THEN <<>>
  ELSE IF Head(s) \in keep THEN <<Head(s)>> \o FilterSeq(Tail(s), keep)
  ELSE FilterSeq(Tail(s), keep)

(***************************************************************************)
(* Rows of the modelled databases                                          *)
(***************************************************************************)
EntityRow(id) == [entity_id |-> id]
PersonRow(id, email) == [person_id |-> id, email |-> email]
AccountRow(id, person, cust) ==
  [account_id |-> id, person_id |-> person, custodian_account_id |-> cust, custodian_id |-> "4"]
TxnRow(id, account, entity, parent) ==
  [transaction_id |-> id, account_id |-> account, entity_id |-> entity, parent_id |-> parent]

RootId == "1"

EntityChoices == { <<>>, <<EntityRow("1")>> }
BlankEmail == " "
PersonChoices ==
  { <<>>, <<PersonRow("1", None)>>, <<PersonRow("1", BlankEmail)>>, <<PersonRow("1", "e@x")>> }
AccountChoices ==
  { <<>>, <<AccountRow("1", "1", "123")>>,
    <<AccountRow("1", "1", "123"), AccountRow("2", "1", "456")>> }
\* transaction 1 hangs on account 1 or on the root entity; transaction 2 is a
\* child of transaction 1
Txn1Choices ==
  { TxnRow("1", a, e, p) : a \in {None, "1"}, e \in {None, "1"}, p \in {None, "1", "2"} }
    \ { TxnRow("1", None, None, p) : p \in {None, "1", "2"} }
Txn2Choices == { TxnRow("2", None, None, "1") }
\* a transaction whose text key holds an apostrophe, hanging on both parents
QuotedId == "o'1"
TxnQuotedChoices == { TxnRow(QuotedId, "1", "1", None) }
\* transaction 2 hanging on the root entity and on account 1 as well
TxnBothChoices == { <<TxnRow("1", "1", "1", None), TxnRow("2", "1", "1", "1")>> }
TxnChoices ==
  { <<>> } \cup { <<t1>> : t1 \in Txn1Choices }
           \cup { <<t1, t2>> : t1 \in Txn1Choices, t2 \in Txn2Choices }
           \cup { <<t3>> : t3 \in TxnQuotedChoices }
           \cup TxnBothChoices

MakeDb(ent, per, acc, txn) ==
  [t \in TableSet |->
     CASE t = ENTITY -> ent [] t = PERSON -> per [] t = ACCOUNT -> acc [] t = TXN -> txn]

\* every non-null foreign-key value references an existing parent row
ReferentialIntegrity(db, fks) ==
  \A fk \in fks : \A r \in Range(db[fk.table]) :
     r[fk.local_column] # None =>
        \E p \in Range(db[fk.referenced_table]) : p[fk.referenced_column] = r[fk.local_column]

\* a column of account.transaction that no constraint of the schema makes a
\* foreign key holds no reference
PlainColumnsNull(db, fks) ==
  \A c \in {"entity_id", "parent_id"} :
     (\A fk \in fks : ~(fk.table = TXN /\ fk.local_column = c)) =>
        \A r \in Range(db[TXN]) : r[c] = None

SourceChoices(fks) ==
  { db \in { MakeDb(ent, per, acc, txn) :
               ent \in EntityChoices, per \in PersonChoices,
               acc \in AccountChoices, txn \in TxnChoices } :
      ReferentialIntegrity(db, fks) /\ PlainColumnsNull(db, fks) }

EmptyDb == MakeDb(<<>>, <<>>, <<>>, <<>>)

\* another owner's account holding the custodian pair of account 1
ConflictDb ==
  MakeDb(<<EntityRow("9")>>, <<PersonRow("9", "z@x")>>,
         <<AccountRow("9", "9", "123")>>, <<>>)

TargetChoices ==
  { EmptyDb, ConflictDb,
    MakeDb(<<EntityRow("1")>>, <<>>, <<>>, <<>>),
    MakeDb(<<EntityRow("1")>>, <<PersonRow("1", "e@x")>>, <<AccountRow("1", "1", "123")>>, <<>>) }

\* entry point, target connection, conflict-resolution flag
ConfigChoices ==
  { <<"main", "ok", FALSE>>, <<"main", "broken", FALSE>>, <<"main", "none", FALSE>>,
    <<"export", "none", TRUE>> }

(***************************************************************************)
(* Schema introspection and the cascade graph                              *)
(***************************************************************************)
Unknown == "Unknown"

\* parse_foreign_key_details: the local column is the group of the first
\* "FOREIGN KEY (...)"; the referenced table and column are cut out of the
\* text between REFERENCES and ON DELETE; whatever is not found is 'Unknown'
parse_foreign_key_details(details) ==
  LET unparsed == [local_column |-> Unknown, referenced_table |-> Unknown,
                   referenced_column |-> Unknown]
      local_rest == After(details, "FOREIGN KEY (")
      local_match == /\ Find(details, "FOREIGN KEY (") > 0
                     /\ Find(local_rest, ")") > 1
      local_column == IF local_match THEN Strip(Before(local_rest, ")")) ELSE Unknown
      ref_part == Strip(Before(Before(After(details, "REFERENCES"), "REFERENCES"),
                               "ON DELETE"))
  IN IF Find(details, "REFERENCES") = 0 THEN unparsed
     ELSE IF Find(ref_part, "(") = 0 THEN unparsed
     ELSE [local_column |-> local_column,
           referenced_table |-> Strip(Before(ref_part, "(")),
           referenced_column |-> Strip(Before(Before(After(ref_part, "("), "("), ")"))]

\* parse_foreign_key_details on each details text of the catalog
ParsedDetails ==
  [d \in { ConstraintOrder[i].details : i \in 1..Len(ConstraintOrder) } |->
     parse_foreign_key_details(d)]

RECURSIVE SplitColumns(_)
\* the column names of a comma-separated column list, as the database reads it
SplitColumns(text) ==
  IF Find(text, ",") = 0 THEN <<Strip(text)>>
  ELSE <<Strip(Before(text, ","))>> \o SplitColumns(After(text, ","))

\* get_table_foreign_key_constraints: the FOREIGN KEY rows of SHOW CONSTRAINTS
\* for the table, kept when include_all_fks or the rule is ON DELETE CASCADE
get_table_foreign_key_constraints(fks, table, include_all_fks) ==
  LET rows == FilterSeq(ConstraintOrder,
                { c \in fks : c.table = table /\ (include_all_fks \/ c.delete_rule = "CASCADE") })
  IN [i \in 1..Len(rows) |->
        [rows[i] EXCEPT
           !.local_column = ParsedDetails[rows[i].details].local_column,
           !.referenced_table = ParsedDetails[rows[i].details].referenced_table,
           !.referenced_column = ParsedDetails[rows[i].details].referenced_column]]

Edge(c) ==
  [child_table |-> c.table, local_column |-> c.local_column,
   referenced_column |-> c.referenced_column, constraint_name |-> c.constraint_name,
   delete_rule |-> c.delete_rule]

\* fk_graph[parent_table].append(edge) on a defaultdict(list)
GraphAppend(graph, parent_table, edge) ==
  IF \E i \in 1..Len(graph) : graph[i].parent = parent_table
  THEN [i \in 1..Len(graph) |->
          IF graph[i].parent = parent_table
          THEN [graph[i] EXCEPT !.children = Append(@, edge)]
          ELSE graph[i]]
  ELSE Append(graph, [parent |-> parent_table, children |-> <<edge>>])

RECURSIVE GraphAddAll(_, _)
GraphAddAll(graph, constraints) ==
  IF Len(constraints) = 0 THEN graph
  ELSE GraphAddAll(GraphAppend(graph, Head(constraints).referenced_table, Edge(Head(constraints))),
                   Tail(constraints))

\* build_foreign_key_dependency_graph: tables in catalog order, each table's
\* constraints appended to the list of the table they reference
build_foreign_key_dependency_graph(fks, include_all_fks) ==
  GraphAddAll(<<>>,
    Concat([i \in 1..Len(get_all_tables) |->
              get_table_foreign_key_constraints(fks, get_all_tables[i], include_all_fks)]))

\* table in cascade_graph
GraphHas(graph, table) == \E i \in 1..Len(graph) : graph[i].parent = table

\* cascade_graph[table]
GraphChildren(graph, table) ==
  IF GraphHas(graph, table)
  THEN graph[CHOOSE i \in 1..Len(graph) : graph[i].parent = table].children
  ELSE <<>>

VisitedAdd_all(visited, table) == TableSet

\* visited.add(start_table) on the set the caller copied for this branch
VisitedAdd(visited, table) == visited \cup {table}

RECURSIVE count_affected_subtables_recursive(_, _, _, _)
RECURSIVE CountChildren(_, _, _, _, _, _)
\* the loop over direct_children of count_affected_subtables_recursive: a
\* child is added at depth + 1 when it is not yet in affected_tables, then
\* the result for the child (with a copy of visited) is merged in, a table
\* being replaced when the merged depth is smaller
CountChildren(graph, start_table, visited, depth, children, affected_tables) ==
  IF Len(children) = 0 THEN affected_tables
  ELSE
    LET child_table == Head(children).child_table
        added ==
          IF child_table \notin DOMAIN affected_tables
          THEN DictPut(affected_tables, child_table,
                       [depth |-> depth + 1, path |-> start_table \o " -> " \o child_table])
          ELSE affected_tables
        child_affected ==
          count_affected_subtables_recursive(graph, child_table, visited, depth + 1)
        merged ==
          [t \in (DOMAIN added) \cup (DOMAIN child_affected) |->
             IF t \in DOMAIN child_affected
                /\ (t \notin DOMAIN added \/ child_affected[t].depth < added[t].depth)
             THEN [depth |-> child_affected[t].depth,
                   path |-> start_table \o " -> " \o child_affected[t].path]
             ELSE added[t]]
    IN CountChildren(graph, start_table, visited, depth, Tail(children), merged)

\* count_affected_subtables_recursive: table -> depth and path; {} for a
\* table already on the current branch
count_affected_subtables_recursive(graph, start_table, visited, depth) ==
  IF start_table \in visited THEN EmptyDict
  ELSE CountChildren(graph, start_table, VisitedAdd(visited, start_table), depth,
                     GraphChildren(graph, start_table), EmptyDict)

RECURSIVE CountBranches(_, _, _, _)
\* the calls of count_affected_subtables_recursive that pass the visited
\* test, each named by its branch: the tables from the root down to
\* start_table; every child is called with a copy of visited
CountBranches(graph, start_table, visited, branch) ==
  IF start_table \in visited THEN {}
  ELSE {branch} \cup
       UNION { CountBranches(graph, GraphChildren(graph, start_table)[i].child_table,
                             VisitedAdd(visited, start_table),
                             Append(branch, GraphChildren(graph, start_table)[i].child_table)) :
               i \in 1..Len(GraphChildren(graph, start_table)) }

\* for parent_table, children in cascade_graph.items(): for child in children
GraphEdges(graph) ==
  Concat([i \in 1..Len(graph) |->
            [j \in 1..Len(graph[i].children) |->
               [parent_table |-> graph[i].parent, child |-> graph[i].children[j]]]])

RECURSIVE SelectEdges(_, _, _)
\* the edges of the iteration whose child table is table and, when column is
\* not None, whose local column is column
SelectEdges(edges, table, column) ==
  IF Len(edges) = 0 THEN <<>>
  ELSE IF Head(edges).child.child_table = table
          /\ (column = None \/ Head(edges).child.local_column = column)
       THEN <<Head(edges)>> \o SelectEdges(Tail(edges), table, column)
       ELSE SelectEdges(Tail(edges), table, column)

\* the dict built by get_all_foreign_key_relationships from the rows of its
\* query, in catalog order: a later row of a local column overwrites an earlier one
RelationshipsOf(mine) ==
  [c \in { mine[i].local_column : i \in 1..Len(mine) } |->
     LET k == CHOOSE i \in 1..Len(mine) :
                /\ mine[i].local_column = c
                /\ \A j \in (i+1)..Len(mine) : mine[j].local_column # c
     IN [referenced_table |-> mine[k].referenced_table,
         referenced_column |-> mine[k].referenced_column]]

\* get_all_foreign_key_relationships: local column -> referenced table/column,
\* from information_schema (every foreign key, whatever its delete rule)
get_all_foreign_key_relationships(fks, table) ==
  RelationshipsOf(FilterSeq(ConstraintOrder, { c \in fks : c.table = table }))

RECURSIVE AppendMissing(_, _)
\* for x in extra: if x not in lst: lst.append(x)
AppendMissing(lst, extra) ==
  IF Len(extra) = 0 THEN lst
  ELSE AppendMissing(IF Head(extra) \in Range(lst) THEN lst ELSE Append(lst, Head(extra)),
                     Tail(extra))

\* get_foreign_key_columns: the local columns of the graph edges into the
\* table, then every other foreign-key column of the table
get_foreign_key_columns(fks, table, graph) ==
  LET es == SelectEdges(GraphEdges(graph), table, None)
      fromGraph == [i \in 1..Len(es) |-> es[i].child.local_column]
      allFk == get_all_foreign_key_relationships(fks, table)
  IN AppendMissing(fromGraph, FilterSeq(get_table_columns(table), DOMAIN allFk))

\* get_table_timestamp_columns: the catalog has no temporal column
get_table_timestamp_columns(table) == {}

\* get_primary_key_columns_from_constraints: [] when the PRIMARY KEY details
\* cannot be parsed
get_primary_key_columns_from_constraints(undetected, table) ==
  IF table \in undetected THEN <<>> ELSE CatalogPrimaryKey(table)

(***************************************************************************)
(* Queries against the databases                                           *)
(***************************************************************************)
\* the root predicate "entity_id = '<id>'"
RootWhere(id) == [kind |-> "eq", column |-> "entity_id", value |-> id]
RootConditions(id) == "entity_id = '" \o id \o "'"

RECURSIVE Holds(_, _, _)
\* does the row satisfy the WHERE clause; a child predicate is
\* local IN (SELECT DISTINCT referenced FROM table WHERE conditions)
Holds(db, row, where) ==
  IF where.kind = "eq"
  THEN where.column \in DOMAIN row /\ row[where.column] = where.value
  ELSE /\ \A i \in 1..Len(where.local_columns) :
             /\ where.local_columns[i] \in DOMAIN row
             /\ row[where.local_columns[i]] # None
       /\ where.table \in DOMAIN db
       /\ \E p \in Range(db[where.table]) :
             /\ Holds(db, p, where.where)
             /\ \A i \in 1..Len(where.local_columns) :
                   p[where.referenced_columns[i]] = row[where.local_columns[i]]

RECURSIVE SelectWhere(_, _, _)
SelectWhere(db, rows, where) ==
  IF Len(rows) = 0 THEN <<>>
  ELSE IF Holds(db, Head(rows), where)
       THEN <<Head(rows)>> \o SelectWhere(db, Tail(rows), where)
       ELSE SelectWhere(db, Tail(rows), where)

\* SELECT * FROM table WHERE conditions
SelectRows(db, table, where) == SelectWhere(db, db[table], where)

\* check_if_record_exists: SELECT 1 FROM table WHERE id_column = record_id;
\* False when the query cannot be executed
check_if_record_exists(conn, db, table, record_id, id_column) ==
  /\ conn = "ok"
  /\ table \in DOMAIN db
  /\ \E r \in Range(db[table]) : id_column \in DOMAIN r /\ r[id_column] = record_id

check_record_exists_never(conn, db, table, pk_columns, record) == FALSE

\* check_record_exists: by primary key; False without primary-key columns,
\* with a null primary-key value or when the query cannot be executed
check_record_exists(conn, db, table, pk_columns, record) ==
  /\ Len(pk_columns) > 0
  /\ \A i \in 1..Len(pk_columns) : DictGet(record, pk_columns[i], None) # None
  /\ conn = "ok"
  /\ \E r \in Range(db[table]) :
        \A i \in 1..Len(pk_columns) : r[pk_columns[i]] = record[pk_columns[i]]

\* the registry of known unique constraints
unique_constraints ==
  [t \in {ACCOUNT, "account.virtual_account", ENTITY} |->
     CASE t = ACCOUNT -> << <<"custodian_account_id", "custodian_id">> >>
       [] t = "account.virtual_account" -> << <<"account_id">> >>
       [] t = ENTITY -> << <<"entity_id">> >>]

check_unique_constraint_violation_failclosed(conn, db, table, record) ==
  table \in DOMAIN unique_constraints /\ conn # "ok"

\* check_unique_constraint_violation
check_unique_constraint_violation(conn, db, table, record) ==
  /\ table \in DOMAIN unique_constraints
  /\ conn = "ok"
  /\ \E k \in 1..Len(unique_constraints[table]) :
       LET cols == unique_constraints[table][k] IN
         /\ \A i \in 1..Len(cols) : cols[i] \in DOMAIN record /\ record[cols[i]] # None
         /\ \E r \in Range(db[table]) : \A i \in 1..Len(cols) : r[cols[i]] = record[cols[i]]

\* check_references_skipped_parent
check_references_skipped_parent(table, record, skipped, graph) ==
  \E i \in 1..Len(GraphEdges(graph)) :
    LET e == GraphEdges(graph)[i]
        fk_value == DictGet(record, e.child.local_column, None)
    IN /\ e.child.child_table = table
       /\ fk_value # None
       /\ e.parent_table \in DOMAIN skipped
       /\ e.child.referenced_column \in DOMAIN skipped[e.parent_table]
       /\ fk_value \in skipped[e.parent_table][e.child.referenced_column]

(***************************************************************************)
(* Record processing pipeline                                              *)
(***************************************************************************)
\* the literal of a foreign-key value used as-is: quoted when it is a str
FkLiteral(table, column, actual) ==
  IF ColKind(table, column) = "str" THEN "'" \o actual \o "'" ELSE actual

\* the literal of a non-foreign-key column
PlainLiteral(table, column, value, timestamp_columns) ==
  IF value = None THEN "NULL"
  ELSE IF column \in timestamp_columns THEN "'" \o value \o "'"
  ELSE IF ColKind(table, column) = "str" THEN "'" \o Escape(value) \o "'"
  ELSE value

\* the SET fragment of a deferred foreign-key value
UpdateSetText(table, column, actual) ==
  IF ColKind(table, column) = "str" THEN column \o " = '" \o actual \o "'"
  ELSE column \o " = " \o actual

\* the WHERE fragment of a non-null non-foreign-key column
WhereText(table, column, value, timestamp_columns) ==
  column \o " = " \o PlainLiteral(table, column, value, timestamp_columns)

\* fk_parent_tables / fk_parent_columns: from the graph (a later edge of the
\* iteration overwrites an earlier one), else from the full catalog
FkParentOf(fks, graph, table, column) ==
  LET es == SelectEdges(GraphEdges(graph), table, column)
      allFk == get_all_foreign_key_relationships(fks, table)
  IN IF Len(es) > 0
     THEN [table |-> es[Len(es)].parent_table, column |-> es[Len(es)].child.referenced_column]
     ELSE IF column \in DOMAIN allFk
     THEN [table |-> allFk[column].referenced_table, column |-> allFk[column].referenced_column]
     ELSE [table |-> None, column |-> None]

\* restored_records.get(parent_table, {}).get(parent_column, set())
RegistryGet(registry, table, column) ==
  DictGet(DictGet(registry, table, EmptyDict), column, {})

\* the resolution chain of a foreign-key column: (a) parent table processed,
\* (b) value in the restored registry, (c) value exists in the target
FkResolvedByProcessed(parent, actual, processed) ==
  parent.table # None /\ parent.table \in processed /\ actual # None

FkResolvedByRestored(parent, actual, restored) ==
  actual # None /\ parent.table # None /\ parent.column # None
    /\ actual \in RegistryGet(restored, parent.table, parent.column)

FkResolvedByTarget_never(parent, actual, conn, target) == FALSE

FkResolvedByTarget(parent, actual, conn, target) ==
  actual # None /\ conn # "none" /\ parent.table # None /\ parent.column # None
    /\ check_if_record_exists(conn, target, parent.table, actual, parent.column)

FkResolved(parent, actual, processed, restored, conn, target) ==
  \/ FkResolvedByProcessed(parent, actual, processed)
  \/ FkResolvedByRestored(parent, actual, restored)
  \/ FkResolvedByTarget(parent, actual, conn, target)

RegistryAdd_overwrite(registry, table, pk_columns, record) ==
  IF Len(pk_columns) = 0 THEN registry
  ELSE DictPut(registry, table,
               DictPut(EmptyDict, Head(pk_columns),
                       {DictGet(record, Head(pk_columns), None)}))

\* registry[table][pk_column].add(str(pk_value)) for every primary-key column
RECURSIVE RegistryAdd(_, _, _, _)
RegistryAdd(registry, table, pk_columns, record) ==
  IF Len(pk_columns) = 0 THEN registry
  ELSE
    LET c == Head(pk_columns)
        forTable == DictGet(registry, table, EmptyDict)
        old == DictGet(forTable, c, {})
        new == IF DictGet(record, c, None) # None THEN old \cup {record[c]} ELSE old
    IN RegistryAdd(DictPut(registry, table, DictPut(forTable, c, new)),
                   table, Tail(pk_columns), record)

RECURSIVE SelectIdx(_, _)
\* the elements of seq at the indexes (in increasing order) that are in idx
SelectIdx(seq, idx) ==
  IF Len(seq) = 0 THEN <<>>
  ELSE SelectIdx(SubSeq(seq, 1, Len(seq) - 1), idx)
         \o (IF Len(seq) \in idx THEN <<seq[Len(seq)]>> ELSE <<>>)

\* the text of an INSERT: columns, VALUES list and the closing clause
InsertText(table, all_columns, insert_values, tail) ==
  "INSERT INTO " \o table \o " (" \o Join(all_columns, ", ") \o ") VALUES ("
     \o Join(insert_values, ", ") \o ")" \o tail

\* one iteration of the loop "for record in records" of
\* collect_insert_and_update_statements; st = [seen, restored, skipped, buffer]
ProcessRecord(fks, undetected, graph, table, record, fk_columns, all_columns, processed, conn, target, timestamp_columns, conflict, st) ==
  LET n == Len(all_columns)
      val(c) == DictGet(record, c, None)
      isFk(i) == all_columns[i] \in Range(fk_columns)
      parent(i) == FkParentOf(fks, graph, table, all_columns[i])
      resolved(i) == FkResolved(parent(i), val(all_columns[i]), processed,
                                st.restored, conn, target)
      insert_values ==
        [i \in 1..n |->
           IF isFk(i)
           THEN IF resolved(i) THEN FkLiteral(table, all_columns[i], val(all_columns[i]))
                ELSE "NULL"
           ELSE PlainLiteral(table, all_columns[i], val(all_columns[i]), timestamp_columns)]
      deferred == { i \in 1..n : isFk(i) /\ ~resolved(i) /\ val(all_columns[i]) # None }
      update_cols == SelectIdx(all_columns, deferred)
      update_sets == [k \in 1..Len(update_cols) |->
                        UpdateSetText(table, update_cols[k], val(update_cols[k]))]
      where_cols == SelectIdx(all_columns,
                              { i \in 1..n : ~isFk(i) /\ val(all_columns[i]) # None })
      where_conditions == [k \in 1..Len(where_cols) |->
                             WhereText(table, where_cols[k], val(where_cols[k]),
                                       timestamp_columns)]
      pk_columns == get_primary_key_columns_from_constraints(undetected, table)
      references_skipped_parent ==
        ~conflict /\ check_references_skipped_parent(table, record, st.skipped, graph)
      record_exists ==
        ~conflict /\ check_record_exists(conn, target, table, pk_columns, record)
      unique_constraint_violation ==
        ~conflict /\ ~record_exists /\ conn # "none"
          /\ check_unique_constraint_violation(conn, target, table, record)
      insert_statement ==
        InsertText(table, all_columns, insert_values,
                   IF conflict THEN " ON CONFLICT DO NOTHING;" ELSE ";")
      statement == [type |-> "INSERT", table |-> table, statement |-> insert_statement,
                    literals |-> insert_values,
                    columns |-> all_columns,
                    values |-> [c \in Range(all_columns) |-> val(c)],
                    kinds |-> [c \in Range(all_columns) |-> ColKind(table, c)],
                    optimized |-> FALSE]
      afterInsert ==
        IF record_exists THEN st
        ELSE IF references_skipped_parent THEN st
        ELSE IF unique_constraint_violation
             THEN [st EXCEPT !.skipped = RegistryAdd(@, table, pk_columns, record)]
        ELSE IF insert_statement \notin st.seen
             THEN [st EXCEPT !.seen = @ \cup {insert_statement},
                             !.buffer = Append(@, statement),
                             !.restored = RegistryAdd(@, table, pk_columns, record)]
        ELSE st
      update_statement ==
        [type |-> "UPDATE", table |-> table,
         statement |-> "UPDATE " \o table \o " SET " \o Join(update_sets, ", ")
                          \o " WHERE " \o Join(where_conditions, " AND ") \o ";",
         updates |-> [c \in Range(update_cols) |-> StripQuotes(FkLiteral(table, c, val(c)))],
         where |-> [c \in Range(where_cols) |->
                      StripQuotes(PlainLiteral(table, c, val(c), timestamp_columns))]]
  IN IF Len(update_sets) > 0 /\ Len(where_conditions) > 0 /\ ~record_exists
        /\ insert_statement \in afterInsert.seen
     THEN [afterInsert EXCEPT !.buffer = Append(@, update_statement)]
     ELSE afterInsert

RECURSIVE CollectLoop(_, _, _, _, _, _, _, _, _, _, _, _, _)
CollectLoop(fks, undetected, graph, table, records, fk_columns, all_columns, processed, conn, target, timestamp_columns, conflict, st) ==
  IF Len(records) = 0 THEN st
  ELSE CollectLoop(fks, undetected, graph, table, Tail(records), fk_columns, all_columns,
                   processed, conn, target, timestamp_columns, conflict,
                   ProcessRecord(fks, undetected, graph, table, Head(records), fk_columns,
                                 all_columns, processed, conn, target, timestamp_columns,
                                 conflict, st))

\* collect_insert_and_update_statements
collect_insert_and_update_statements(fks, undetected, graph, table, records, fk_columns, all_columns, processed, conn, target, timestamp_columns, conflict, st) ==
  CollectLoop(fks, undetected, graph, table, records, fk_columns, all_columns,
              processed, conn, target, timestamp_columns, conflict, st)

(***************************************************************************)
(* Statement optimizer                                                     *)
(***************************************************************************)
RECURSIVE TablesInOrder(_, _)
\* the tables of the statements, each once, in order of first appearance
\* (the key order of the dict "tables")
TablesInOrder(stmts, acc) ==
  IF Len(stmts) = 0 THEN acc
  ELSE TablesInOrder(Tail(stmts),
                     IF Head(stmts).table \in Range(acc) THEN acc
                     ELSE Append(acc, Head(stmts).table))

RECURSIVE SelectStmts(_, _, _)
\* the statements of the table (and of the type, unless type is None)
SelectStmts(stmts, table, type) ==
  IF Len(stmts) = 0 THEN <<>>
  ELSE IF Head(stmts).table = table /\ (type = None \/ Head(stmts).type = type)
       THEN <<Head(stmts)>> \o SelectStmts(Tail(stmts), table, type)
       ELSE SelectStmts(Tail(stmts), table, type)

\* records_match: str(insert value) == str(where value) for every WHERE column
records_match(insert_stmt, update_stmt) ==
  \A c \in DOMAIN update_stmt.where :
     DictGet(insert_stmt.values, c, None) = update_stmt.where[c]

\* the literal merge_insert_update renders for a merged value
MergedLiteral(value, kind) ==
  IF value = None THEN "NULL"
  ELSE IF kind = "str" THEN "'" \o Escape(value) \o "'"
  ELSE value

\* merge_insert_update
merge_insert_update(insert_stmt, update_stmt) ==
  LET unq(v) == IF StartsWith(v, "'") /\ EndsWith(v, "'")
                THEN SubSeq(v, 2, Len(v) - 1) ELSE v
      upd == update_stmt.updates
      merged_values ==
        [c \in (DOMAIN insert_stmt.values) \cup (DOMAIN upd) |->
           IF c \in DOMAIN upd THEN unq(upd[c]) ELSE insert_stmt.values[c]]
      merged_kinds ==
        [c \in DOMAIN merged_values |->
           IF c \in DOMAIN upd THEN "str" ELSE insert_stmt.kinds[c]]
      columns == insert_stmt.columns
      values_list == [k \in 1..Len(columns) |->
                        MergedLiteral(DictGet(merged_values, columns[k], None),
                                      DictGet(merged_kinds, columns[k], "str"))]
  IN [type |-> "INSERT", table |-> insert_stmt.table,
      statement |-> InsertText(insert_stmt.table, columns, values_list, ";"),
      literals |-> values_list,
      columns |-> columns, values |-> merged_values, kinds |-> merged_kinds,
      optimized |-> TRUE]

RECURSIVE MergeInserts(_, _, _)
\* the loop over the INSERTs of one table: each takes the first UPDATE not yet
\* used that matches it; returns the merged INSERTs and the used indexes
MergeInserts(inserts, updates, used) ==
  IF Len(inserts) = 0 THEN [merged |-> <<>>, used |-> used]
  ELSE
    LET ins == Head(inserts)
        cand == { i \in 1..Len(updates) : i \notin used /\ records_match(ins, updates[i]) }
        m == IF cand = {} THEN 0 ELSE CHOOSE i \in cand : \A j \in cand : i <= j
        rest == MergeInserts(Tail(inserts), updates, IF m = 0 THEN used ELSE used \cup {m})
    IN [merged |-> <<IF m = 0 THEN ins ELSE merge_insert_update(ins, updates[m])>>
                     \o rest.merged,
        used |-> rest.used]

\* optimize_statements
optimize_statements(buffer) ==
  LET tables == TablesInOrder(buffer, <<>>)
      perTable(t) ==
        LET inserts == SelectStmts(buffer, t, "INSERT")
            updates == SelectStmts(buffer, t, "UPDATE")
            r == MergeInserts(inserts, updates, {})
        IN r.merged \o SelectIdx(updates, (1..Len(updates)) \ r.used)
  IN Concat([k \in 1..Len(tables) |-> perTable(tables[k])])

(***************************************************************************)
(* NULL foreign-key resolver                                               *)
(***************************************************************************)
RECURSIVE Contains(_, _)
\* sub in s
Contains(s, sub) ==
  IF Len(s) < Len(sub) THEN FALSE
  ELSE IF StartsWith(s, sub) THEN TRUE
  ELSE Contains(Tail(s), sub)

\* any(pk in col_name.lower() for pk in pk_candidates); the column names of
\* the catalog are lower case
pk_candidates == <<"id", "account_id", "entity_id", "person_id", "group_id">>
IsPkCandidate(col_name) ==
  \E k \in 1..Len(pk_candidates) : Contains(col_name, pk_candidates[k])

\* Python truthiness of a value
Truthy(value, kind) ==
  value # None /\ (IF kind = "str" THEN value # "" ELSE value # "0")

\* the key under which an INSERT is filed in inserted_records[table], or None
InsertedKey(stmt) ==
  LET cols == stmt.columns
      ok == { k \in 1..Len(cols) :
                /\ IsPkCandidate(cols[k])
                /\ Truthy(stmt.values[cols[k]], stmt.kinds[cols[k]])
                /\ stmt.values[cols[k]] # "NULL" }
  IN IF ok = {} THEN None
     ELSE LET k == CHOOSE x \in ok : \A y \in ok : x <= y
              v == stmt.values[cols[k]]
          IN IF stmt.kinds[cols[k]] = "str" /\ StartsWith(v, "'") THEN StripQuotes(v) ELSE v

RECURSIVE FirstInsertedKey(_, _)
\* next(iter(inserted_records[table].keys())), or None when the dict is empty
FirstInsertedKey(stmts, table) ==
  IF Len(stmts) = 0 THEN None
  ELSE IF Head(stmts).type = "INSERT" /\ Head(stmts).table = table
          /\ InsertedKey(Head(stmts)) # None
       THEN InsertedKey(Head(stmts))
       ELSE FirstInsertedKey(Tail(stmts), table)

\* the parent table the graph gives for table.col_name (first match of the
\* iteration), or None
FixParentTable(fk_graph, table, col_name) ==
  LET es == SelectEdges(GraphEdges(fk_graph), table, col_name)
  IN IF Len(es) = 0 THEN None ELSE es[1].parent_table

FixedLiteral_null(value, kind) == "NULL"

\* the literal fix_null_foreign_keys renders for a value
FixedLiteral(value, kind) ==
  IF value = None \/ value = "NULL" THEN "NULL"
  ELSE IF kind = "str"
       THEN IF StartsWith(value, "'") /\ EndsWith(value, "'") THEN value
            ELSE "'" \o value \o "'"
  ELSE value

\* the statement fix_null_foreign_keys makes of one INSERT
FixInsert(statements, fk_graph, stmt) ==
  LET table == stmt.table
      tablesInserted == { statements[i].table :
                            i \in { k \in 1..Len(statements) : statements[k].type = "INSERT" } }
      substitute(c) ==
        LET parent_table == FixParentTable(fk_graph, table, c)
        IN /\ (stmt.values[c] = "NULL" \/ stmt.values[c] = None)
           /\ parent_table # None
           /\ parent_table \in tablesInserted
           /\ FirstInsertedKey(statements, parent_table) # None
      values == [c \in DOMAIN stmt.values |->
                   IF substitute(c)
                   THEN "'" \o FirstInsertedKey(statements, FixParentTable(fk_graph, table, c)) \o "'"
                   ELSE stmt.values[c]]
      kinds == [c \in DOMAIN stmt.values |-> IF substitute(c) THEN "str" ELSE stmt.kinds[c]]
      columns == stmt.columns
      value_list == [k \in 1..Len(columns) |-> FixedLiteral(values[columns[k]], kinds[columns[k]])]
  IN [stmt EXCEPT !.values = values, !.kinds = kinds, !.literals = value_list,
                  !.statement = InsertText(table, columns, value_list, ";")]

\* fix_null_foreign_keys
fix_null_foreign_keys(statements, fk_graph) ==
  [i \in 1..Len(statements) |->
     IF statements[i].type = "INSERT" THEN FixInsert(statements, fk_graph, statements[i])
     ELSE statements[i]]

(***************************************************************************)
(* Emission                                                                *)
(***************************************************************************)
\* filter_computed_columns_from_statement: an INSERT with a crdb_internal_
\* column is rebuilt without that column and its value
filter_computed_columns_from_statement(stmt) ==
  IF ~StartsWith(stmt.statement, "INSERT INTO") THEN stmt.statement
  ELSE
    LET columns == stmt.columns
        keep == { k \in 1..Len(columns) : ~StartsWith(columns[k], "crdb_internal_") }
    IN IF Cardinality(keep) = Len(columns) THEN stmt.statement
       ELSE "INSERT INTO " \o stmt.table \o "(" \o Join(SelectIdx(columns, keep), ", ")
               \o ") VALUES (" \o Join(SelectIdx(stmt.literals, keep), ", ") \o ");"

\* write_statements_to_file: the lines written, grouped by table in order of
\* first appearance
write_statements_to_file(statements) ==
  LET tables == TablesInOrder(statements, <<>>)
      perTable(t) ==
        LET table_statements == SelectStmts(statements, t, None)
        IN <<[kind |-> "banner", table |-> t,
              text |-> "-- " \o t \o ": " \o
                       ToString(Len(SelectStmts(statements, t, "INSERT"))) \o " records"]>>
           \o [k \in 1..Len(table_statements) |->
                 [kind |-> "sql", table |-> t, stmt |-> table_statements[k],
                  text |-> filter_computed_columns_from_statement(table_statements[k])]]
  IN Concat([k \in 1..Len(tables) |-> perTable(tables[k])])

(***************************************************************************)
(* Missing-parent discovery                                                *)
(***************************************************************************)
\* referenced_ids_to_check: the (table, column, value) references of the
\* emitted INSERTs that are absent from the target and present in the source
ReferencedIdsToCheck(fks, buffer, conn, target, source) ==
  UNION { LET stmt == buffer[i]
              rels == get_all_foreign_key_relationships(fks, stmt.table)
          IN { <<rels[c].referenced_table, rels[c].referenced_column, stmt.values[c]>> :
                 c \in { x \in DOMAIN rels :
                           /\ DictGet(stmt.values, x, None) # None
                           /\ stmt.values[x] # "NULL"
                           /\ ~check_if_record_exists(conn, target, rels[x].referenced_table,
                                                      stmt.values[x], rels[x].referenced_column)
                           /\ check_if_record_exists("ok", source, rels[x].referenced_table,
                                                     stmt.values[x], rels[x].referenced_column) } }
          : i \in { k \in 1..Len(buffer) : buffer[k].type = "INSERT" } }

\* the keys for which the parent row is fetched (not already in the buffer,
\* found in the source) and collect_insert_and_update_statements is called
MissingParentCalls(fks, buffer, conn, target, source) ==
  { key \in ReferencedIdsToCheck(fks, buffer, conn, target, source) :
      /\ ~\E i \in 1..Len(buffer) :
            /\ buffer[i].type = "INSERT"
            /\ buffer[i].table = key[1]
            /\ ColKind(key[1], key[2]) = "str"
            /\ DictGet(buffer[i].values, key[2], None) = key[3]
      /\ \E r \in Range(source[key[1]]) : r[key[2]] = key[3] }

\* discover_missing_parent_records: the statement buffer it leaves.  Without
\* a target connection it returns at once.  Otherwise, for every key of
\* MissingParentCalls, the call of collect_insert_and_update_statements
\* passes use_conflict_resolution, which is neither a parameter nor a local
\* of the function nor a module global: evaluating the argument raises
\* NameError, the handler of the enclosing try prints it and continues with
\* the next key, before anything is prepended to the buffer or recorded in
\* affected_records.
discover_missing_parent_records(fks, buffer, conn, target, source) ==
  IF conn = "none" THEN buffer
  ELSE IF MissingParentCalls(fks, buffer, conn, target, source) = {} THEN buffer
  ELSE buffer

(***************************************************************************)
(* Execution of a script against the target (the operator's step)          *)
(***************************************************************************)
RECURSIVE Unescape(_)
Unescape(s) ==
  IF Len(s) = 0 THEN ""
  ELSE IF Len(s) >= 2 /\ SubSeq(s, 1, 2) = "''" THEN "'" \o Unescape(SubSeq(s, 3, Len(s)))
  ELSE Head(s) \o Unescape(Tail(s))

\* the value a SQL literal denotes
ParseLiteral(lit) ==
  IF lit = "NULL" THEN None
  ELSE IF Len(lit) >= 2 /\ StartsWith(lit, "'") /\ EndsWith(lit, "'")
       THEN Unescape(SubSeq(lit, 2, Len(lit) - 1))
  ELSE lit

\* the row an INSERT of the final buffer inserts (computed columns left out)
RowOfInsert(stmt) ==
  LET idx(c) == CHOOSE k \in 1..Len(stmt.columns) : stmt.columns[k] = c
  IN [c \in { x \in Range(stmt.columns) : ~StartsWith(x, "crdb_internal_") } |->
        ParseLiteral(stmt.literals[idx(c)])]

\* would the row violate the constraints of the database
RowViolates(db, fks, table, row) ==
  LET pk == CatalogPrimaryKey(table) IN
  \/ \E i \in 1..Len(pk) : row[pk[i]] = None
  \/ \E r \in Range(db[table]) : \A i \in 1..Len(pk) : r[pk[i]] = row[pk[i]]
  \/ /\ table = ACCOUNT
     /\ row["custodian_account_id"] # None /\ row["custodian_id"] # None
     /\ \E r \in Range(db[table]) :
          /\ r["custodian_account_id"] = row["custodian_account_id"]
          /\ r["custodian_id"] = row["custodian_id"]
  \/ \E fk \in fks :
        /\ fk.table = table
        /\ row[fk.local_column] # None
        /\ ~\E p \in Range(db[fk.referenced_table]) \cup {row} :
              /\ fk.referenced_column \in DOMAIN p
              /\ p[fk.referenced_column] = row[fk.local_column]

RECURSIVE ExecScript(_, _, _)
\* the statements executed in order in one transaction: [ok, db]
ExecScript(db, fks, stmts) ==
  IF Len(stmts) = 0 THEN [ok |-> TRUE, db |-> db]
  ELSE
    LET stmt == Head(stmts) IN
    IF stmt.type = "INSERT"
    THEN LET row == RowOfInsert(stmt) IN
         IF RowViolates(db, fks, stmt.table, row) THEN [ok |-> FALSE, db |-> db]
         ELSE ExecScript([db EXCEPT ![stmt.table] = Append(@, row)], fks, Tail(stmts))
    ELSE
      LET hit(r) == \A c \in DOMAIN stmt.where : r[c] = stmt.where[c]
          new(r) == [c \in DOMAIN r |-> IF c \in DOMAIN stmt.updates THEN stmt.updates[c] ELSE r[c]]
          rows == db[stmt.table]
          bad == \E k \in 1..Len(rows) : hit(rows[k]) /\
                   \E fk \in fks :
                      /\ fk.table = stmt.table
                      /\ new(rows[k])[fk.local_column] # None
                      /\ ~\E p \in Range(db[fk.referenced_table]) :
                            p[fk.referenced_column] = new(rows[k])[fk.local_column]
      IN IF bad THEN [ok |-> FALSE, db |-> db]
         ELSE ExecScript([db EXCEPT ![stmt.table] =
                             [k \in 1..Len(rows) |-> IF hit(rows[k]) THEN new(rows[k]) ELSE rows[k]]],
                         fks, Tail(stmts))

(***************************************************************************)
(* Affected-record discovery                                               *)
(***************************************************************************)
RECURSIVE AllSpaces(_)
AllSpaces(s) == Len(s) = 0 \/ (Head(s) = " " /\ AllSpaces(Tail(s)))

\* not email or (isinstance(email, str) and len(email.strip()) == 0)
EmailBlank(record) ==
  LET email == DictGet(record, "email", None) IN email = None \/ AllSpaces(email)

DropBlankEmail_keep(records) == records

RECURSIVE DropBlankEmail(_)
\* valid_records of the person.person branch
DropBlankEmail(records) ==
  IF Len(records) = 0 THEN <<>>
  ELSE (IF EmailBlank(Head(records)) THEN <<>> ELSE <<Head(records)>>)
         \o DropBlankEmail(Tail(records))

Enqueue_front(queue, items) == items \o queue

\* processing_queue.append(...) for each item, in order
Enqueue(queue, items) == queue \o items

ChildItem_flat(child_info, table, conditions, where, level) ==
  [table |-> child_info.child_table,
   conditions |-> child_info.local_column \o " IN (SELECT DISTINCT "
                    \o child_info.referenced_column \o " FROM " \o table
                    \o " WHERE " \o conditions \o ")",
   where |-> [kind |-> "in", local_column |-> child_info.local_column,
              referenced_column |-> child_info.referenced_column,
              local_columns |-> SplitColumns(child_info.local_column),
              referenced_columns |-> SplitColumns(child_info.referenced_column),
              table |-> table, where |-> where],
   level |-> level + 1]

\* the queue item of a child edge of (table, conditions, level)
ChildItem(child_info, table, conditions, where, level) ==
  LET local_column == child_info.local_column
      parent_values_query == "SELECT DISTINCT " \o child_info.referenced_column
                                \o " FROM " \o table \o " WHERE " \o conditions
  IN [table |-> child_info.child_table,
      conditions |-> IF Contains(local_column, ",")
                     THEN "(" \o local_column \o ") IN (" \o parent_values_query \o ")"
                     ELSE local_column \o " IN (" \o parent_values_query \o ")",
      where |-> [kind |-> "in", local_column |-> local_column,
                 referenced_column |-> child_info.referenced_column,
                 local_columns |-> SplitColumns(local_column),
                 referenced_columns |-> SplitColumns(child_info.referenced_column),
                 table |-> table, where |-> where],
      level |-> level + 1]

\* table_condition_key
TableConditionKey(table, conditions) == table \o "::" \o conditions

AlreadyVisited_never(table_condition_key, visited) == FALSE

\* "if table_condition_key in visited_tables: continue"
AlreadyVisited(table_condition_key, visited) == table_condition_key \in visited

\* the schema has a constraint whose details text is not of the usual shape
Malformed(fks) ==
  \E c \in fks :
     c.details # FkDetails(c.local_column, c.referenced_table, c.referenced_column)

\* the schema with both the diamond and the self-reference
DiamondAndSelfReference(fks) == FkTxnEntity \in fks /\ FkTxnParent \in fks

\* the inputs that are combined: an undetected primary key comes with main(),
\* a working target connection and the chain schema; a malformed constraint text, and the
\* schema with both the diamond and the self-reference, come with main(), a
\* working target connection and every primary key detected
Combined(fks, undetected, cfg) ==
  /\ undetected # {} =>
        (cfg = <<"main", "ok", FALSE>> /\ fks = {FkPersonEntity, FkAccountPerson, FkTxnAccount})
  /\ (Malformed(fks) \/ DiamondAndSelfReference(fks)) =>
        (cfg = <<"main", "ok", FALSE>> /\ undetected = {})

\* a faulty source table is combined with the diamond schema and the plain
\* configuration: main(), a working target connection, every primary key
\* detected, an empty target; with the self-reference added, the person
\* table is faulty for the source whose second transaction hangs on an account
FaultChoices(fks, cfg, undetected, target, source) ==
  IF /\ FkTxnEntity \in fks /\ FkTxnParent \notin fks
     /\ cfg = <<"main", "ok", FALSE>> /\ undetected = {} /\ target = EmptyDb
  THEN {None, PERSON, TXN}
  ELSE IF /\ DiamondAndSelfReference(fks) /\ target = EmptyDb
          /\ source[TXN] \in TxnBothChoices
       THEN {None, PERSON}
       ELSE {None}

\* a person whose email is blank, not null, is combined with the plain schema
\* and configuration and the empty target
BlankCombined(source, fks, cfg, undetected, target) ==
  (\E r \in Range(source[PERSON]) : r.email = BlankEmail) =>
     /\ fks = {FkPersonEntity, FkAccountPerson, FkTxnAccount}
     /\ cfg = <<"main", "ok", FALSE>> /\ undetected = {} /\ target = EmptyDb

\* the owner-first catalog is combined with the diamond schema, the plain
\* configuration and the target holding the conflicting account
ColumnChoices(fks, cfg, undetected, target) ==
  IF /\ FkTxnEntity \in fks /\ FkTxnParent \notin fks
     /\ cfg = <<"main", "ok", FALSE>> /\ undetected = {} /\ target = ConflictDb
  THEN {KeyFirstColumns, OwnerFirstColumns}
  ELSE {KeyFirstColumns}

\* the analyzer is not running
AnalyzerIdle ==
  /\ analyzer_pc = "idle"
  /\ argv = <<>>
  /\ mode = "analyze"
  /\ dry_run = TRUE
  /\ csv_file = <<>>
  /\ virtual_account_holder = {}
  /\ entity_entity = {}
  /\ account_backup_table = [exists |-> FALSE, rows |-> {}]
  /\ entity_backup_table = [exists |-> FALSE, rows |-> {}]
  /\ client_ids = <<>>
  /\ clients_with_accounts = {}
  /\ executed = <<>>
  /\ rollback_file = FALSE
  /\ step_fault = None
  /\ removed = [account |-> {}, entity |-> {}]
  /\ other_sessions = 0

BeneficiaryIdle ==
  /\ bene_pc = "idle"
  /\ uat_restore = [person |-> {}, virtual_account_holder |-> {},
                    beneficiary |-> {}, familial_relation |-> {}]
  /\ uat_cluster = [person |-> {}, virtual_account_holder |-> {},
                    beneficiary |-> {}, familial_relation |-> {}]
  /\ cluster_transaction = [open |-> FALSE, view |-> uat_cluster]
  /\ cluster_log = <<>>
  /\ bene_fault = None

\* what connecting to prod_db_url gives: given is "prod_db_url is not None",
\* conn is the kind of connection an attempt that succeeds returns, and
\* attempts[i] is "pass" when the i-th attempt of the retry loop (connect and
\* the test query SELECT 1) succeeds and "fail" when it raises
Url(given, conn, attempts) == [given |-> given, conn |-> conn, attempts |-> attempts]

AllPass == <<"pass", "pass", "pass">>

\* failing reconnection attempts are combined with the chain schema, the
\* plain configuration and the target that already holds the root entity;
\* export passes no URL
UrlChoices(fks, cfg, undetected, target) ==
  IF cfg[1] = "export" THEN { Url(FALSE, cfg[2], <<>>) }
  ELSE IF /\ fks = {FkPersonEntity, FkAccountPerson, FkTxnAccount}
          /\ cfg = <<"main", "ok", FALSE>> /\ undetected = {}
          /\ target = MakeDb(<<EntityRow("1")>>, <<>>, <<>>, <<>>)
       THEN { Url(TRUE, cfg[2], a) :
                a \in { AllPass, <<"fail", "pass", "pass">>, <<"fail", "fail", "pass">>,
                        <<"fail", "fail", "fail">> } }
       ELSE { Url(TRUE, cfg[2], AllPass) }

Init ==
  /\ AnalyzerIdle
  /\ BeneficiaryIdle
  /\ pc = "start"
  /\ run = 1
  /\ fk_constraints \in SchemaChoices
  /\ pk_undetected \in PkUndetectedChoices
  /\ sourceDb \in SourceChoices(fk_constraints)
  /\ \E cfg \in ConfigChoices :
       /\ Combined(fk_constraints, pk_undetected, cfg)
       /\ entry = cfg[1]
       /\ prod_current_conn = cfg[2]
       /\ use_conflict_resolution = cfg[3]
       /\ targetDb \in (IF cfg[2] # "ok" \/ Malformed(fk_constraints) THEN {EmptyDb}
                        ELSE IF pk_undetected # {} \/ DiamondAndSelfReference(fk_constraints)
                             THEN {EmptyDb, ConflictDb}
                        ELSE TargetChoices)
       /\ source_fault \in FaultChoices(fk_constraints, cfg, pk_undetected, targetDb, sourceDb)
       /\ table_columns \in ColumnChoices(fk_constraints, cfg, pk_undetected, targetDb)
       /\ prod_db_url \in UrlChoices(fk_constraints, cfg, pk_undetected, targetDb)
       /\ BlankCombined(sourceDb, fk_constraints, cfg, pk_undetected, targetDb)
  /\ restore_conn_status = "idle"
  /\ retry_count = 0
  /\ possible_affected_subtables = EmptyDict
  /\ cascade_graph = <<>>
  /\ processing_queue = <<>>
  /\ visited_tables = {}
  /\ processed_tables = {}
  /\ insert_statements_seen = {}
  /\ restored_records = EmptyDict
  /\ skipped_records = EmptyDict
  /\ statement_buffer = <<>>
  /\ affected_records = EmptyDict
  /\ level_stats = EmptyDict
  /\ optimized_statements = <<>>
  /\ fixed_statements = <<>>
  /\ sql_file = <<>>
  /\ dequeue_log = <<>>
  /\ applied_rows = {}

\* main() / export_earl_denver_data() up to the call of
\* find_affected_records_iteratively: graph build, header, BEGIN
HeaderLines ==
  IF entry = "main"
  THEN << [kind |-> "comment", text |-> "-- Entity Data Restoration SQL"],
          [kind |-> "comment", text |-> "-- Entity ID: " \o RootId],
          [kind |-> "comment", text |-> "-- 2. Change ROLLBACK to COMMIT when ready to apply"],
          [kind |-> "begin", text |-> "BEGIN;"] >>
  ELSE << [kind |-> "comment", text |-> "-- Earl Denver QA Data Export"],
          [kind |-> "comment", text |-> "-- Entity ID: " \o RootId],
          [kind |-> "comment", text |-> "-- 4. Change ROLLBACK to COMMIT when ready to apply"],
          [kind |-> "begin", text |-> "BEGIN;"] >>

max_retries == 3

\* if prod_current_conn is not None and prod_db_url is not None
PromptTaken(conn, url) == conn # "none" /\ url.given

LoopContinues_once(count) == count < 1

\* while retry_count < max_retries
LoopContinues(count) == count < max_retries

EntryPoint ==
  /\ pc = "start"
  /\ cascade_graph' = build_foreign_key_dependency_graph(fk_constraints, TRUE)
  /\ possible_affected_subtables' =
       count_affected_subtables_recursive(cascade_graph', ENTITY, {}, 0)
  /\ sql_file' = HeaderLines
  /\ retry_count' = 0
  /\ pc' = IF PromptTaken(prod_current_conn, prod_db_url) THEN "reconnect" ELSE "discover"
  /\ UNCHANGED <<run, entry, fk_constraints, pk_undetected, sourceDb, targetDb,
                 prod_current_conn, use_conflict_resolution,
                 processing_queue, visited_tables, processed_tables,
                 insert_statements_seen, restored_records, skipped_records,
                 statement_buffer, affected_records, level_stats,
                 optimized_statements, fixed_statements, dequeue_log, applied_rows,
                 source_fault, restore_conn_status, table_columns,
                 prod_db_url, analyzerVars, beneficiaryVars>>

\* one iteration of the retry loop that re-establishes the target connection
\* after the operator prompt: break at the first attempt that passes; a failed
\* attempt counts and leaves prod_current_conn = None
ReconnectAttempt ==
  /\ pc = "reconnect"
  /\ LoopContinues(retry_count)
  /\ IF prod_db_url.attempts[retry_count + 1] = "pass"
     THEN /\ prod_current_conn' = prod_db_url.conn
          /\ retry_count' = retry_count
          /\ pc' = "discover"
     ELSE /\ retry_count' = retry_count + 1
          /\ prod_current_conn' = "none"
          /\ pc' = IF LoopContinues(retry_count + 1) THEN "reconnect" ELSE "discover"
  /\ UNCHANGED <<run, entry, fk_constraints, pk_undetected, sourceDb, targetDb,
                 use_conflict_resolution, cascade_graph,
                 processing_queue, visited_tables, processed_tables,
                 insert_statements_seen, restored_records, skipped_records,
                 statement_buffer, affected_records, level_stats,
                 optimized_statements, fixed_statements, sql_file, dequeue_log, applied_rows,
                 source_fault, restore_conn_status, possible_affected_subtables, table_columns,
                 prod_db_url, analyzerVars, beneficiaryVars>>

\* the prologue of find_affected_records_iteratively
StartDiscovery ==
  /\ pc = "discover"
  /\ affected_records' = EmptyDict
  /\ visited_tables' = {}
  /\ processed_tables' = {}
  /\ insert_statements_seen' = {}
  /\ restored_records' = EmptyDict
  /\ skipped_records' = EmptyDict
  /\ statement_buffer' = <<>>
  /\ processing_queue' = << [table |-> ENTITY, conditions |-> RootConditions(RootId),
                            where |-> RootWhere(RootId), level |-> 0] >>
  /\ level_stats' = EmptyDict
  /\ pc' = "bfs"
  /\ UNCHANGED <<run, entry, fk_constraints, pk_undetected, sourceDb, targetDb,
                 prod_current_conn, use_conflict_resolution, cascade_graph,
                 optimized_statements, fixed_statements, sql_file, dequeue_log, applied_rows,
                 source_fault, restore_conn_status, possible_affected_subtables, table_columns,
                 prod_db_url, retry_count, analyzerVars, beneficiaryVars>>

\* the predicate names a column that its table does not have, or column lists
\* of different lengths
ColumnsUnknown(local, columns, referenced, parent_columns) ==
  \/ Range(local) \notin SUBSET Range(columns)
  \/ Range(referenced) \notin SUBSET Range(parent_columns)
  \/ Len(local) # Len(referenced)

\* cursor.execute of "SELECT * FROM table WHERE conditions" on the restore
\* connection raises: the table's query is faulty, or the connection's
\* transaction is in the aborted state left by an earlier failure, or the
\* predicate names a column that the table does not have
QueryRaises(table, where, fault, status) ==
  \/ table = fault
  \/ status = "aborted"
  \/ /\ where.kind = "in"
     /\ ColumnsUnknown(where.local_columns, get_table_columns(table),
                       where.referenced_columns, get_table_columns(where.table))

rollback_noop(status) == status

\* restore_conn.rollback() in the handler: clears the aborted state
rollback(status) == "idle"

EnqueuedChildren_always(raised, record_count, items) == items

\* the child items appended to the queue for a dequeued item: none when the
\* query raised or returned no rows (continue), else one per outgoing edge
EnqueuedChildren(raised, record_count, items) ==
  IF raised \/ record_count = 0 THEN <<>> ELSE items

\* one iteration of "while processing_queue"
ProcessQueueItem ==
  /\ pc = "bfs"
  /\ Len(processing_queue) > 0
  /\ Head(processing_queue).level <= MaxLevel
  /\ LET current == Head(processing_queue)
         table == current.table
         conditions == current.conditions
         level == current.level
         table_condition_key == TableConditionKey(table, conditions)
     IN
       IF AlreadyVisited(table_condition_key, visited_tables)
       THEN /\ processing_queue' = Tail(processing_queue)
            /\ dequeue_log' = Append(dequeue_log, [item |-> current, queried |-> FALSE,
                                                    record_count |-> 0, raised |-> FALSE])
            /\ UNCHANGED <<visited_tables, processed_tables, insert_statements_seen,
                           restored_records, skipped_records, statement_buffer,
                           affected_records, level_stats, restore_conn_status>>
       ELSE
         LET raised == QueryRaises(table, current.where, source_fault, restore_conn_status)
             records == IF raised THEN <<>> ELSE SelectRows(sourceDb, table, current.where)
             record_count == Len(records)
             all_columns == get_table_columns(table)
             fk_columns == get_foreign_key_columns(fk_constraints, table, cascade_graph)
             record_dicts == IF table = PERSON THEN DropBlankEmail(records) ELSE records
             st == collect_insert_and_update_statements(
                     fk_constraints, pk_undetected, cascade_graph, table, record_dicts,
                     fk_columns, all_columns, processed_tables, prod_current_conn, targetDb,
                     get_table_timestamp_columns(table), use_conflict_resolution,
                     [seen |-> insert_statements_seen, restored |-> restored_records,
                      skipped |-> skipped_records, buffer |-> statement_buffer])
             children == GraphChildren(cascade_graph, table)
         IN
           /\ visited_tables' = visited_tables \cup {table_condition_key}
           /\ dequeue_log' = Append(dequeue_log, [item |-> current, queried |-> TRUE,
                                                   record_count |-> record_count,
                                                   raised |-> raised])
           /\ restore_conn_status' =
                IF raised THEN rollback("aborted") ELSE restore_conn_status
           /\ processing_queue' =
                Enqueue(Tail(processing_queue),
                        EnqueuedChildren(raised, record_count,
                          [k \in 1..Len(children) |->
                             ChildItem(children[k], table, conditions, current.where, level)]))
           /\ IF record_count > 0
              THEN /\ insert_statements_seen' = st.seen
                   /\ restored_records' = st.restored
                   /\ skipped_records' = st.skipped
                   /\ statement_buffer' = st.buffer
                   /\ processed_tables' = processed_tables \cup {table}
                   /\ affected_records' =
                        DictPut(affected_records, table,
                                [record_count |-> record_count, conditions |-> conditions,
                                 level |-> level])
                   /\ level_stats' =
                        DictPut(level_stats, level, DictGet(level_stats, level, 0) + record_count)
              ELSE /\ UNCHANGED <<processed_tables, insert_statements_seen, restored_records,
                                  skipped_records, statement_buffer, affected_records,
                                  level_stats>>
  /\ UNCHANGED <<pc, run, entry, fk_constraints, pk_undetected, sourceDb, targetDb,
                 prod_current_conn, use_conflict_resolution, cascade_graph,
                 optimized_statements, fixed_statements, sql_file, applied_rows,
                 source_fault, possible_affected_subtables, table_columns,
                 prod_db_url, retry_count, analyzerVars, beneficiaryVars>>

\* the queue is empty: discover_missing_parent_records
DiscoverMissingParents ==
  /\ pc = "bfs"
  /\ Len(processing_queue) = 0
  /\ statement_buffer' = discover_missing_parent_records(
                           fk_constraints, statement_buffer, prod_current_conn,
                           targetDb, sourceDb)
  /\ pc' = "optimize"
  /\ UNCHANGED <<run, entry, fk_constraints, pk_undetected, sourceDb, targetDb,
                 prod_current_conn, use_conflict_resolution, cascade_graph,
                 processing_queue, visited_tables, processed_tables,
                 insert_statements_seen, restored_records, skipped_records,
                 affected_records, level_stats,
                 optimized_statements, fixed_statements, sql_file, dequeue_log, applied_rows,
                 source_fault, restore_conn_status, possible_affected_subtables, table_columns,
                 prod_db_url, retry_count, analyzerVars, beneficiaryVars>>

OptimizeStatements ==
  /\ pc = "optimize"
  /\ optimized_statements' = optimize_statements(statement_buffer)
  /\ pc' = "fixnull"
  /\ UNCHANGED <<run, entry, fk_constraints, pk_undetected, sourceDb, targetDb,
                 prod_current_conn, use_conflict_resolution, cascade_graph,
                 processing_queue, visited_tables, processed_tables,
                 insert_statements_seen, restored_records, skipped_records,
                 statement_buffer, affected_records, level_stats,
                 fixed_statements, sql_file, dequeue_log, applied_rows,
                 source_fault, restore_conn_status, possible_affected_subtables, table_columns,
                 prod_db_url, retry_count, analyzerVars, beneficiaryVars>>

FixNullForeignKeys ==
  /\ pc = "fixnull"
  /\ fixed_statements' = fix_null_foreign_keys(optimized_statements, cascade_graph)
  /\ pc' = "write"
  /\ UNCHANGED <<run, entry, fk_constraints, pk_undetected, sourceDb, targetDb,
                 prod_current_conn, use_conflict_resolution, cascade_graph,
                 processing_queue, visited_tables, processed_tables,
                 insert_statements_seen, restored_records, skipped_records,
                 statement_buffer, affected_records, level_stats,
                 optimized_statements, sql_file, dequeue_log, applied_rows,
                 source_fault, restore_conn_status, possible_affected_subtables, table_columns,
                 prod_db_url, retry_count, analyzerVars, beneficiaryVars>>

WriteStatements ==
  /\ pc = "write"
  /\ sql_file' = sql_file \o write_statements_to_file(fixed_statements)
  /\ pc' = "footer"
  /\ UNCHANGED <<run, entry, fk_constraints, pk_undetected, sourceDb, targetDb,
                 prod_current_conn, use_conflict_resolution, cascade_graph,
                 processing_queue, visited_tables, processed_tables,
                 insert_statements_seen, restored_records, skipped_records,
                 statement_buffer, affected_records, level_stats,
                 optimized_statements, fixed_statements, dequeue_log, applied_rows,
                 source_fault, restore_conn_status, possible_affected_subtables, table_columns,
                 prod_db_url, retry_count, analyzerVars, beneficiaryVars>>

FooterLines_commit == << [kind |-> "end", text |-> "COMMIT;"] >>

\* the footer the entry point writes after find_affected_records_iteratively
FooterLines ==
  IF entry = "main"
  THEN << [kind |-> "end", text |-> "ROLLBACK;"] >>
  ELSE << [kind |-> "comment", text |-> "-- Change to COMMIT when ready to apply"],
          [kind |-> "end", text |-> "ROLLBACK;"] >>

WriteFooter ==
  /\ pc = "footer"
  /\ sql_file' = sql_file \o FooterLines
  /\ pc' = "done"
  /\ UNCHANGED <<run, entry, fk_constraints, pk_undetected, sourceDb, targetDb,
                 prod_current_conn, use_conflict_resolution, cascade_graph,
                 processing_queue, visited_tables, processed_tables,
                 insert_statements_seen, restored_records, skipped_records,
                 statement_buffer, affected_records, level_stats,
                 optimized_statements, fixed_statements, dequeue_log, applied_rows,
                 source_fault, restore_conn_status, possible_affected_subtables, table_columns,
                 prod_db_url, retry_count, analyzerVars, beneficiaryVars>>

\* The operator flips ROLLBACK to COMMIT and executes the script against the
\* target; when no statement is rejected the rows are committed, and the
\* engine is run again on the unchanged source.
ExecuteScript ==
  /\ pc = "done"
  /\ run < MaxRuns
  /\ ExecScript(targetDb, fk_constraints, fixed_statements).ok
  /\ targetDb' = ExecScript(targetDb, fk_constraints, fixed_statements).db
  /\ run' = run + 1
  /\ pc' = "start"
  /\ cascade_graph' = <<>>
  /\ processing_queue' = <<>>
  /\ visited_tables' = {}
  /\ processed_tables' = {}
  /\ insert_statements_seen' = {}
  /\ restored_records' = EmptyDict
  /\ skipped_records' = EmptyDict
  /\ statement_buffer' = <<>>
  /\ affected_records' = EmptyDict
  /\ level_stats' = EmptyDict
  /\ optimized_statements' = <<>>
  /\ fixed_statements' = <<>>
  /\ sql_file' = <<>>
  /\ dequeue_log' = <<>>
  /\ applied_rows' = applied_rows \cup
       { <<fixed_statements[i].table, RowOfInsert(fixed_statements[i])>> :
           i \in { k \in 1..Len(fixed_statements) : fixed_statements[k].type = "INSERT" } }
  /\ prod_current_conn' = prod_db_url.conn
  /\ UNCHANGED <<entry, fk_constraints, pk_undetected, sourceDb,
                 use_conflict_resolution,
                 source_fault, restore_conn_status, possible_affected_subtables, table_columns,
                 prod_db_url, retry_count, analyzerVars, beneficiaryVars>>

Next ==
  \/ EntryPoint
  \/ ReconnectAttempt
  \/ StartDiscovery
  \/ ProcessQueueItem
  \/ DiscoverMissingParents
  \/ OptimizeStatements
  \/ FixNullForeignKeys
  \/ WriteStatements
  \/ WriteFooter
  \/ ExecuteScript

Spec == Init /\ [][Next]_vars

(***************************************************************************)
(* count_affected_subtables_recursive on arbitrary small graphs            *)
(***************************************************************************)
CountTables == {ENTITY, PERSON, ACCOUNT}

\* the lists of distinct child tables, in every order
ChildLists ==
  { l \in UNION { [1..n -> CountTables] : n \in 0..Cardinality(CountTables) } :
      \A i \in 1..Len(l) : \A j \in 1..Len(l) : i # j => l[i] # l[j] }

\* a graph dict: one key per table that has children
CountGraph(le, lp, la) ==
  LET entry_of(t, l) ==
        IF Len(l) = 0 THEN <<>>
        ELSE <<[parent |-> t, children |-> [i \in 1..Len(l) |-> [child_table |-> l[i]]]]>>
  IN entry_of(ENTITY, le) \o entry_of(PERSON, lp) \o entry_of(ACCOUNT, la)

CountInit ==
  /\ AnalyzerIdle
  /\ BeneficiaryIdle
  /\ pc = "count"
  /\ table_columns = KeyFirstColumns
  /\ prod_db_url = Url(FALSE, "none", <<>>)
  /\ retry_count = 0
  /\ cascade_graph \in { CountGraph(le, lp, la) :
                           le \in ChildLists, lp \in ChildLists, la \in ChildLists }
  /\ possible_affected_subtables = EmptyDict
  /\ run = 1
  /\ entry = "main"
  /\ fk_constraints = {}
  /\ pk_undetected = {}
  /\ sourceDb = EmptyDb
  /\ targetDb = EmptyDb
  /\ prod_current_conn = "none"
  /\ use_conflict_resolution = FALSE
  /\ source_fault = None
  /\ restore_conn_status = "idle"
  /\ processing_queue = <<>>
  /\ visited_tables = {}
  /\ processed_tables = {}
  /\ insert_statements_seen = {}
  /\ restored_records = EmptyDict
  /\ skipped_records = EmptyDict
  /\ statement_buffer = <<>>
  /\ affected_records = EmptyDict
  /\ level_stats = EmptyDict
  /\ optimized_statements = <<>>
  /\ fixed_statements = <<>>
  /\ sql_file = <<>>
  /\ dequeue_log = <<>>
  /\ applied_rows = {}

\* the call count_affected_subtables_recursive(fk_graph, 'entity.entity')
CountSubtables ==
  /\ pc = "count"
  /\ possible_affected_subtables' =
       count_affected_subtables_recursive(cascade_graph, ENTITY, {}, 0)
  /\ pc' = "counted"
  /\ UNCHANGED <<run, entry, fk_constraints, pk_undetected, sourceDb, targetDb,
                 prod_current_conn, use_conflict_resolution, cascade_graph,
                 processing_queue, visited_tables, processed_tables,
                 insert_statements_seen, restored_records, skipped_records,
                 statement_buffer, affected_records, level_stats,
                 optimized_statements, fixed_statements, sql_file, dequeue_log,
                 applied_rows, source_fault, restore_conn_status, table_columns,
                 prod_db_url, retry_count, analyzerVars, beneficiaryVars>>

CountNext == CountSubtables

CountSpec == CountInit /\ [][CountNext]_vars

\* the restoration engine is not running
EngineIdle ==
  /\ pc = "idle"
  /\ run = 1
  /\ entry = "main"
  /\ fk_constraints = {}
  /\ pk_undetected = {}
  /\ sourceDb = EmptyDb
  /\ targetDb = EmptyDb
  /\ prod_current_conn = "none"
  /\ use_conflict_resolution = FALSE
  /\ cascade_graph = <<>>
  /\ processing_queue = <<>>
  /\ visited_tables = {}
  /\ processed_tables = {}
  /\ insert_statements_seen = {}
  /\ restored_records = EmptyDict
  /\ skipped_records = EmptyDict
  /\ statement_buffer = <<>>
  /\ affected_records = EmptyDict
  /\ level_stats = EmptyDict
  /\ optimized_statements = <<>>
  /\ fixed_statements = <<>>
  /\ sql_file = <<>>
  /\ dequeue_log = <<>>
  /\ applied_rows = {}
  /\ source_fault = None
  /\ restore_conn_status = "idle"
  /\ possible_affected_subtables = EmptyDict
  /\ table_columns = KeyFirstColumns
  /\ prod_db_url = Url(FALSE, "none", <<>>)
  /\ retry_count = 0

(***************************************************************************)
(* find_accounts_with_missing_emails.py: MissingEmailAnalyzer and main     *)
(***************************************************************************)
MaxOtherSessions == 1   \* transactions other database sessions commit during a run

HolderRow(person_id, account_id) == [person_id |-> person_id, account_id |-> account_id]

\* an entity.entity row; updated_at stands for its other columns
AnalyzerEntityRow(entity_id, updated_at) == [entity_id |-> entity_id, updated_at |-> updated_at]

\* a table that does not exist yet
NoTable == [exists |-> FALSE, rows |-> {}]

\* sys.argv[1:]
ArgvChoices ==
  { <<>>, <<"analyze">>, <<"delete">>, <<"delete", "--execute">>,
    <<"delete", "--dry-run">>, <<"--execute">>, <<"--execute", "delete">>,
    <<"purge">>, <<"analyze", "--execute">>, <<"delete", "--execute", "now">> }

\* the rows of missing_emails.csv
CsvChoices == { <<>>, <<1>>, <<1, 2>> }

HolderChoices == { {}, {HolderRow(1, "a")}, {HolderRow(3, "c")} }

AnalyzerEntityChoices ==
  { {}, {AnalyzerEntityRow(1, 0)}, {AnalyzerEntityRow(1, 0), AnalyzerEntityRow(3, 0)} }

\* the function of the execute path whose first statement raises, or None
StepFaultChoices == { None, "create", "backup", "delete", "script" }

\* main(): the mode and the dry-run flag that sys.argv selects
ParsedMode(args) ==
  IF Len(args) >= 1 /\ args[1] = "delete" THEN "delete" ELSE "analyze"

\* the usage message and sys.exit(1)
UsageExit(args) == Len(args) >= 1 /\ args[1] \notin {"delete", "analyze"}

ParsedDryRun_delete(args) == ~(Len(args) >= 1 /\ args[1] = "delete")

\* dry_run stays True unless the arguments begin with delete --execute
ParsedDryRun(args) ==
  ~(Len(args) >= 2 /\ args[1] = "delete" /\ args[2] = "--execute")

NoHolders(holders, ids) == {}

\* check_clients_with_accounts: the client ids of the list that have a row in
\* account.virtual_account_holder
check_clients_with_accounts(holders, ids) ==
  { r.person_id : r \in { h \in holders : h.person_id \in Range(ids) } }

\* check_clients_in_entity_table
check_clients_in_entity_table(entities, ids) ==
  { e \in entities : e.entity_id \in Range(ids) }

\* the statements of create_backup_tables
CreateStatements == <<"CREATE", "ALTER", "CREATE", "ALTER", "COMMIT">>

\* the statements of backup_records_before_deletion
BackupStatements == <<"INSERT", "INSERT", "COMMIT">>

\* the statements of delete_client_records
DeleteStatements == <<"DELETE", "DELETE", "COMMIT">>

\* main() up to the dispatch on mode
AnalyzerMain ==
  /\ analyzer_pc = "main"
  /\ mode' = ParsedMode(argv)
  /\ dry_run' = ParsedDryRun(argv)
  /\ analyzer_pc' = IF UsageExit(argv) THEN "usage" ELSE ParsedMode(argv)
  /\ UNCHANGED <<engineVars, beneficiaryVars, argv, csv_file, virtual_account_holder, entity_entity,
                 account_backup_table, entity_backup_table, client_ids,
                 clients_with_accounts, executed, rollback_file, step_fault, removed,
                 other_sessions>>

\* analyze_missing_email_accounts: queries and report files only
AnalyzeMissingEmailAccounts ==
  /\ analyzer_pc = "analyze"
  /\ client_ids' = csv_file
  /\ clients_with_accounts' = check_clients_with_accounts(virtual_account_holder, csv_file)
  /\ executed' = executed \o <<"SELECT", "SELECT", "SELECT">>
  /\ analyzer_pc' = "exit"
  /\ UNCHANGED <<engineVars, beneficiaryVars, argv, mode, dry_run, csv_file, virtual_account_holder,
                 entity_entity, account_backup_table, entity_backup_table,
                 rollback_file, step_fault, removed, other_sessions>>

\* safe_delete_clients up to the end of the dry-run branch: load the ids,
\* return when there is none, abort when one of them has an account, and in
\* dry-run mode log the simulation and return
SafeDeleteCheck ==
  /\ analyzer_pc = "delete"
  /\ client_ids' = csv_file
  /\ LET found == IF Len(csv_file) = 0 THEN {}
                  ELSE check_clients_with_accounts(virtual_account_holder, csv_file)
     IN /\ clients_with_accounts' = found
        /\ executed' =
             IF Len(csv_file) = 0 THEN executed
             ELSE IF found # {} THEN Append(executed, "SELECT")
             ELSE IF dry_run THEN executed \o <<"SELECT", "SELECT", "SELECT">>
             ELSE executed \o <<"SELECT", "SELECT">>
        /\ analyzer_pc' =
             IF Len(csv_file) = 0 \/ found # {} \/ dry_run THEN "exit" ELSE "create"
  /\ UNCHANGED <<engineVars, beneficiaryVars, argv, mode, dry_run, csv_file, virtual_account_holder,
                 entity_entity, account_backup_table, entity_backup_table,
                 rollback_file, step_fault, removed, other_sessions>>

\* create_backup_tables: both tables are created and committed, or the
\* transaction is rolled back and the exception ends safe_delete_clients
CreateBackupTables ==
  /\ analyzer_pc = "create"
  /\ IF step_fault = "create"
     THEN /\ executed' = Append(executed, "ROLLBACK")
          /\ analyzer_pc' = "exit"
          /\ UNCHANGED <<account_backup_table, entity_backup_table>>
     ELSE /\ executed' = executed \o CreateStatements
          /\ account_backup_table' = [account_backup_table EXCEPT !.exists = TRUE]
          /\ entity_backup_table' = [entity_backup_table EXCEPT !.exists = TRUE]
          /\ analyzer_pc' = "backup"
  /\ UNCHANGED <<engineVars, beneficiaryVars, argv, mode, dry_run, csv_file, virtual_account_holder,
                 entity_entity, client_ids, clients_with_accounts,
                 rollback_file, step_fault, removed, other_sessions>>

\* backup_records_before_deletion: INSERT INTO backup SELECT ... WHERE id IN
\* (client_ids), for both tables, then commit
BackupRecords ==
  /\ analyzer_pc = "backup"
  /\ IF step_fault = "backup"
     THEN /\ executed' = Append(executed, "ROLLBACK")
          /\ analyzer_pc' = "exit"
          /\ UNCHANGED <<account_backup_table, entity_backup_table>>
     ELSE /\ executed' = executed \o BackupStatements
          /\ account_backup_table' =
               [account_backup_table EXCEPT
                  !.rows = @ \cup { h \in virtual_account_holder :
                                      h.person_id \in Range(client_ids) }]
          /\ entity_backup_table' =
               [entity_backup_table EXCEPT
                  !.rows = @ \cup check_clients_in_entity_table(entity_entity, client_ids)]
          /\ analyzer_pc' = "remove"
  /\ UNCHANGED <<engineVars, beneficiaryVars, argv, mode, dry_run, csv_file, virtual_account_holder,
                 entity_entity, client_ids, clients_with_accounts,
                 rollback_file, step_fault, removed, other_sessions>>

\* delete_client_records: DELETE ... WHERE id IN (client_ids) on both tables,
\* then commit
DeleteClientRecords ==
  /\ analyzer_pc = "remove"
  /\ IF step_fault = "delete"
     THEN /\ executed' = Append(executed, "ROLLBACK")
          /\ analyzer_pc' = "exit"
          /\ UNCHANGED <<virtual_account_holder, entity_entity, removed>>
     ELSE /\ executed' = executed \o DeleteStatements
          /\ virtual_account_holder' =
               { h \in virtual_account_holder : h.person_id \notin Range(client_ids) }
          /\ entity_entity' = entity_entity \ check_clients_in_entity_table(entity_entity, client_ids)
          /\ removed' =
               [account |-> { h \in virtual_account_holder :
                                h.person_id \in Range(client_ids) },
                entity |-> check_clients_in_entity_table(entity_entity, client_ids)]
          /\ analyzer_pc' = "script"
  /\ UNCHANGED <<engineVars, beneficiaryVars, argv, mode, dry_run, csv_file, account_backup_table,
                 entity_backup_table, client_ids, clients_with_accounts,
                 rollback_file, step_fault, other_sessions>>

\* generate_rollback_script, then the final verification queries
GenerateRollbackScript ==
  /\ analyzer_pc = "script"
  /\ IF step_fault = "script"
     THEN UNCHANGED <<rollback_file, executed>>
     ELSE /\ rollback_file' = TRUE
          /\ executed' = executed \o <<"SELECT", "SELECT">>
  /\ analyzer_pc' = "exit"
  /\ UNCHANGED <<engineVars, beneficiaryVars, argv, mode, dry_run, csv_file, virtual_account_holder,
                 entity_entity, account_backup_table, entity_backup_table, client_ids,
                 clients_with_accounts, step_fault, removed, other_sessions>>

\* another database session commits a transaction between two transactions
\* of the analyzer: it opens an account for a person, or changes an entity row
OtherSession ==
  /\ analyzer_pc \in {"delete", "create", "backup", "remove", "script"}
  /\ other_sessions < MaxOtherSessions
  /\ other_sessions' = other_sessions + 1
  /\ \/ /\ \E p \in {1, 3} :
             virtual_account_holder' = virtual_account_holder \cup {HolderRow(p, "n")}
        /\ UNCHANGED entity_entity
     \/ /\ \E e \in entity_entity :
             entity_entity' = (entity_entity \ {e})
                                \cup {AnalyzerEntityRow(e.entity_id, e.updated_at + 1)}
        /\ UNCHANGED virtual_account_holder
  /\ UNCHANGED <<engineVars, beneficiaryVars, argv, mode, dry_run, csv_file, account_backup_table,
                 entity_backup_table, client_ids, clients_with_accounts, executed,
                 rollback_file, step_fault, removed, analyzer_pc>>

AnalyzerInit ==
  /\ EngineIdle
  /\ BeneficiaryIdle
  /\ analyzer_pc = "main"
  /\ argv \in ArgvChoices
  /\ mode = "analyze"
  /\ dry_run = TRUE
  /\ csv_file \in CsvChoices
  /\ virtual_account_holder \in HolderChoices
  /\ entity_entity \in AnalyzerEntityChoices
  /\ account_backup_table = NoTable
  /\ entity_backup_table = NoTable
  /\ client_ids = <<>>
  /\ clients_with_accounts = {}
  /\ executed = <<>>
  /\ rollback_file = FALSE
  /\ step_fault \in (IF ParsedDryRun(argv) THEN {None} ELSE StepFaultChoices)
  /\ removed = [account |-> {}, entity |-> {}]
  /\ other_sessions = 0

AnalyzerNext ==
  \/ AnalyzerMain
  \/ AnalyzeMissingEmailAccounts
  \/ SafeDeleteCheck
  \/ CreateBackupTables
  \/ BackupRecords
  \/ DeleteClientRecords
  \/ GenerateRollbackScript
  \/ OtherSession

AnalyzerSpec == AnalyzerInit /\ [][AnalyzerNext]_vars

(***************************************************************************)
(* insert_back_beneficiaries.py: beneficiary records of the UAT restore    *)
(* database are inserted into the UAT cluster inside transactions that are *)
(* rolled back.  uat_cluster is the committed state of the cluster;        *)
(* cluster_transaction is the transaction open on uat_cluster_connection   *)
(* and the rows it sees.  An email is NULL or a text, a text being the     *)
(* sequence of its parts.                                                  *)
(***************************************************************************)
EXCLUDED_PERSON_ID == "1050546708150026243"

RESTORE_EMAIL_SUFFIX == <<"restore", "@", "farther.com">>

NullEmail == [null |-> TRUE, text |-> <<>>]

Text(parts) == [null |-> FALSE, text |-> parts]

BeneficiaryPersonRow(person_id, email) == [person_id |-> person_id, email |-> email]

BeneficiaryRow(benefactor_id, beneficiary_id) ==
  [benefactor_id |-> benefactor_id, beneficiary_id |-> beneficiary_id]

FamilialRow(person_id, related_person_id) ==
  [person_id |-> person_id, related_person_id |-> related_person_id]

BeneficiaryDb(person, holders, beneficiary, familial_relation) ==
  [person |-> person, virtual_account_holder |-> holders,
   beneficiary |-> beneficiary, familial_relation |-> familial_relation]

\* email LIKE '%@%'
LikeAt(email) == ~email.null /\ \E i \in 1..Len(email.text) : email.text[i] = "@"

\* email NOT LIKE '%@%': never true of NULL
NotLikeAt(email) == ~email.null /\ ~LikeAt(email)

\* person_id || 'restore@farther.com'
RestoreEmail(person_id) == Text(<<person_id>> \o RESTORE_EMAIL_SUFFIX)

\* the LEFT JOIN on the virtual account count
get_virtual_account_subquery(db, person_id) ==
  Cardinality({ h \in db.virtual_account_holder : h.person_id = person_id })

\* the WHERE clause shared by the restore queries
get_beneficiary_filter_conditions(db) ==
  { p \in db.person :
      /\ p.email.null \/ p.email.text = <<>> \/ ~LikeAt(p.email)
      /\ get_virtual_account_subquery(db, p.person_id) = 0
      /\ p.person_id # EXCLUDED_PERSON_ID }

\* the filtered persons that are somebody's beneficiary
FilteredBeneficiaryIds(db) ==
  { p.person_id : p \in { q \in get_beneficiary_filter_conditions(db) :
                            \E b \in db.beneficiary : b.beneficiary_id = q.person_id } }

get_beneficiaries_person_table(db) ==
  { BeneficiaryPersonRow(id, RestoreEmail(id)) : id \in FilteredBeneficiaryIds(db) }

get_beneficiaries_beneficiary_table(db) ==
  { b \in db.beneficiary :
      \E p \in get_beneficiary_filter_conditions(db) : p.person_id = b.beneficiary_id }

get_familial_relationship_records(db) ==
  { r \in db.familial_relation : r.person_id \in FilteredBeneficiaryIds(db) }

\* UPDATE person.person SET email = person_id || suffix WHERE email NOT LIKE '%@%'
UpdateEmails(persons) ==
  { IF NotLikeAt(p.email) THEN [p EXCEPT !.email = RestoreEmail(p.person_id)] ELSE p :
      p \in persons }

\* the conflict columns of each table
SameKey(table, x, r) ==
  CASE table = "person" -> x.person_id = r.person_id
    [] table = "beneficiary" ->
         x.benefactor_id = r.benefactor_id /\ x.beneficiary_id = r.beneficiary_id
    [] table = "familial_relation" ->
         x.person_id = r.person_id /\ x.related_person_id = r.related_person_id

\* INSERT INTO table VALUES ... ON CONFLICT (columns) DO NOTHING
InsertDoNothing(table, rows, records) ==
  rows \cup { r \in records : ~\E x \in rows : SameKey(table, x, r) }

NoTransaction == [open |-> FALSE, view |-> BeneficiaryDb({}, {}, {}, {})]

\* the first statement after a commit or rollback begins a transaction
Begin(cluster, transaction) ==
  IF transaction.open THEN transaction ELSE [open |-> TRUE, view |-> cluster]

connection_commit(cluster, transaction) ==
  [cluster |-> IF transaction.open THEN transaction.view ELSE cluster,
   statement |-> "COMMIT"]

\* connection.rollback(): the rows the transaction wrote are discarded
connection_rollback(cluster, transaction) ==
  [cluster |-> cluster, statement |-> "ROLLBACK"]

\* connection.close(): an open transaction is discarded
connection_close(cluster, transaction) ==
  [cluster |-> cluster, statement |-> "CLOSE"]

\* the view of a transaction after the INSERT of records into table
Inserted(begun, table, records) ==
  [open |-> TRUE,
   view |-> [begun.view EXCEPT ![table] = InsertDoNothing(table, @, records)]]

\* the outcome of the rollback that ends the function
InsertOutcome(ended, raises) ==
  [cluster |-> ended.cluster, transaction |-> NoTransaction,
   log |-> <<"INSERT", ended.statement>>, raised |-> raises]

\* returns at once when there are no records; otherwise the INSERT and the
\* rollback, on success and on error
insert_records_with_conflict_handling(cluster, transaction, table, records, raises) ==
  IF records = {}
  THEN [cluster |-> cluster, transaction |-> transaction, log |-> <<>>,
        raised |-> FALSE]
  ELSE InsertOutcome(
         connection_rollback(cluster,
           IF raises THEN Begin(cluster, transaction)
           ELSE Inserted(Begin(cluster, transaction), table, records)),
         raises)

BadEmail == Text(<<"nobody">>)

GoodEmail == Text(<<"a", "@", "b.com">>)

ClusterChoices ==
  { BeneficiaryDb(person, {}, beneficiary, {}) :
      person \in { {}, {BeneficiaryPersonRow("3", BadEmail)},
                   {BeneficiaryPersonRow("1", GoodEmail)},
                   {BeneficiaryPersonRow("1", NullEmail),
                    BeneficiaryPersonRow("3", Text(<<>>))} },
      beneficiary \in { {}, {BeneficiaryRow("9", "1")} } }

RestoreChoices ==
  { BeneficiaryDb(person, holders, beneficiary, familial_relation) :
      person \in { {}, {BeneficiaryPersonRow("1", NullEmail)},
                   {BeneficiaryPersonRow("1", BadEmail),
                    BeneficiaryPersonRow("2", GoodEmail)},
                   {BeneficiaryPersonRow("1", Text(<<>>)),
                    BeneficiaryPersonRow(EXCLUDED_PERSON_ID, BadEmail)} },
      holders \in { {}, {[person_id |-> "1", account_id |-> "a"]} },
      beneficiary \in { {}, {BeneficiaryRow("9", "1")},
                        {BeneficiaryRow("9", "1"), BeneficiaryRow("9", "2"),
                         BeneficiaryRow("8", EXCLUDED_PERSON_ID)} },
      familial_relation \in { {}, {FamilialRow("1", "9")} } }

BeneficiaryFaultChoices ==
  { None, "fix", "restore_person", "verify", "csv", "insert_person",
    "restore_beneficiary", "insert_beneficiary", "restore_familial",
    "insert_familial" }

\* both connections are made, autocommit off
BeneficiaryMain ==
  /\ bene_pc = "main"
  /\ bene_pc' = "fix"
  /\ UNCHANGED <<engineVars, analyzerVars, uat_restore, uat_cluster,
                 cluster_transaction, cluster_log, bene_fault>>

\* step 1: count, update, count again, roll back; a statement that raises is
\* rolled back too and the error goes to main
FixInvalidEmailAccounts ==
  /\ bene_pc = "fix"
  /\ LET updated == [open |-> TRUE,
                     view |-> [uat_cluster EXCEPT !.person = UpdateEmails(@)]]
         ended == connection_rollback(uat_cluster,
                    IF bene_fault = "fix" THEN Begin(uat_cluster, cluster_transaction)
                    ELSE updated)
     IN /\ uat_cluster' = ended.cluster
        /\ cluster_log' = cluster_log \o
             (IF bene_fault = "fix" THEN <<"SELECT", "UPDATE", ended.statement>>
              ELSE <<"SELECT", "UPDATE", "SELECT", ended.statement>>)
  /\ cluster_transaction' = NoTransaction
  /\ bene_pc' = IF bene_fault = "fix" THEN "close" ELSE "persons"
  /\ UNCHANGED <<engineVars, analyzerVars, uat_restore, bene_fault>>

\* the rows of the cluster with the person ids of the restored beneficiaries
Conflicts(cluster, beneficiaries) ==
  { c \in cluster.person : \E b \in beneficiaries : b.person_id = c.person_id }

\* the beneficiaries whose person id the cluster does not hold
NewBeneficiaries(cluster, beneficiaries) ==
  { b \in beneficiaries :
      ~\E c \in Conflicts(cluster, beneficiaries) : c.person_id = b.person_id }

\* steps 2 and 3 with a verify query that did not raise
InsertPersons(begun, beneficiaries) ==
  IF bene_fault = "csv" /\ Conflicts(begun.view, beneficiaries) # {}
  THEN [cluster |-> uat_cluster, transaction |-> begun, log |-> <<>>, raised |-> TRUE]
  ELSE insert_records_with_conflict_handling(uat_cluster, begun, "person",
         NewBeneficiaries(begun.view, beneficiaries), bene_fault = "insert_person")

\* the outcome of steps 2 and 3 when the restore database returned beneficiaries
VerifyAndInsert(beneficiaries) ==
  IF bene_fault = "verify"
  THEN [cluster |-> uat_cluster, transaction |-> Begin(uat_cluster, cluster_transaction),
        log |-> <<>>, raised |-> TRUE]
  ELSE InsertPersons(Begin(uat_cluster, cluster_transaction), beneficiaries)

\* the effect of a call's outcome on the connection
Apply(outcome, log, next) ==
  /\ uat_cluster' = outcome.cluster
  /\ cluster_transaction' = outcome.transaction
  /\ cluster_log' = cluster_log \o log \o outcome.log
  /\ bene_pc' = IF outcome.raised THEN "close" ELSE next

\* steps 2 and 3: the person rows of the beneficiaries, the verify query on
\* the cluster, the conflicts file, the insert of the rows that do not conflict
RestorePersons ==
  /\ bene_pc = "persons"
  /\ IF bene_fault = "restore_person"
     THEN /\ bene_pc' = "close"
          /\ UNCHANGED <<uat_cluster, cluster_transaction, cluster_log>>
     ELSE IF get_beneficiaries_person_table(uat_restore) = {}
     THEN /\ bene_pc' = "beneficiary"
          /\ UNCHANGED <<uat_cluster, cluster_transaction, cluster_log>>
     ELSE Apply(VerifyAndInsert(get_beneficiaries_person_table(uat_restore)),
                <<"SELECT">>, "beneficiary")
  /\ UNCHANGED <<engineVars, analyzerVars, uat_restore, bene_fault>>

\* step 4
InsertBeneficiaryRecords ==
  /\ bene_pc = "beneficiary"
  /\ IF bene_fault = "restore_beneficiary"
     THEN /\ bene_pc' = "close"
          /\ UNCHANGED <<uat_cluster, cluster_transaction, cluster_log>>
     ELSE Apply(insert_records_with_conflict_handling(uat_cluster, cluster_transaction,
                  "beneficiary", get_beneficiaries_beneficiary_table(uat_restore),
                  bene_fault = "insert_beneficiary"),
                <<>>, "familial")
  /\ UNCHANGED <<engineVars, analyzerVars, uat_restore, bene_fault>>

\* step 5
InsertFamilialRecords ==
  /\ bene_pc = "familial"
  /\ IF bene_fault = "restore_familial"
     THEN /\ bene_pc' = "close"
          /\ UNCHANGED <<uat_cluster, cluster_transaction, cluster_log>>
     ELSE Apply(insert_records_with_conflict_handling(uat_cluster, cluster_transaction,
                  "familial_relation", get_familial_relationship_records(uat_restore),
                  bene_fault = "insert_familial"),
                <<>>, "close")
  /\ UNCHANGED <<engineVars, analyzerVars, uat_restore, bene_fault>>

\* finally: both connections are closed
CloseConnections ==
  /\ bene_pc = "close"
  /\ LET ended == connection_close(uat_cluster, cluster_transaction)
     IN /\ uat_cluster' = ended.cluster
        /\ cluster_log' = Append(cluster_log, ended.statement)
  /\ cluster_transaction' = NoTransaction
  /\ bene_pc' = "done"
  /\ UNCHANGED <<engineVars, analyzerVars, uat_restore, bene_fault>>

BeneficiaryInit ==
  /\ EngineIdle
  /\ AnalyzerIdle
  /\ bene_pc = "main"
  /\ uat_restore \in RestoreChoices
  /\ uat_cluster \in ClusterChoices
  /\ cluster_transaction = NoTransaction
  /\ cluster_log = <<>>
  /\ bene_fault \in BeneficiaryFaultChoices

BeneficiaryNext ==
  \/ BeneficiaryMain
  \/ FixInvalidEmailAccounts
  \/ RestorePersons
  \/ InsertBeneficiaryRecords
  \/ InsertFamilialRecords
  \/ CloseConnections

BeneficiarySpec == BeneficiaryInit /\ [][BeneficiaryNext]_vars

(***************************************************************************)
(* Properties                                                              *)
(***************************************************************************)
\* the positions of the dequeue history at which the source was queried
Queried == { i \in 1..Len(dequeue_log) : dequeue_log[i].queried }

DequeuedKey(i) ==
  TableConditionKey(dequeue_log[i].item.table, dequeue_log[i].item.conditions)

\* C1: within one run a (table, conditions) pair is queried and handed to the
\* record pipeline at most once; a queue item whose key was dequeued before
\* is dropped without a query, so it finds no rows, emits nothing and
\* enqueues no children.
C1_QueriedAtMostOnce ==
  \A i \in 1..Len(dequeue_log) : \A j \in 1..Len(dequeue_log) :
     (i < j /\ DequeuedKey(i) = DequeuedKey(j))
        => (~dequeue_log[j].queried /\ dequeue_log[j].record_count = 0)

\* a key was dequeued a second time and skipped, while its first dequeue had
\* found rows
C1_Witness ==
  \E i \in 1..Len(dequeue_log) : \E j \in 1..Len(dequeue_log) :
     /\ i < j
     /\ DequeuedKey(i) = DequeuedKey(j)
     /\ dequeue_log[i].queried
     /\ dequeue_log[i].record_count > 0
     /\ ~dequeue_log[j].queried

Inserts(statements) ==
  { i \in 1..Len(statements) : statements[i].type = "INSERT" }

\* C2: at every point of a run the statement buffer holds at most one INSERT
\* per distinct source row (the same table and the same column values),
\* whatever the number of foreign-key paths that reach the row.
C2_OneInsertPerRow ==
  \A i \in Inserts(statement_buffer) : \A j \in Inserts(statement_buffer) :
     (statement_buffer[i].table = statement_buffer[j].table
        /\ statement_buffer[i].values = statement_buffer[j].values) => i = j

\* the dequeues of one table that found rows
Productive(table) ==
  { i \in Queried : dequeue_log[i].item.table = table /\ dequeue_log[i].record_count > 0 }

\* C3: when discovery has reached a table with rows at several levels, the
\* run ends with one affected_records entry for the table, and its level is
\* the smallest of them.
C3_DiamondMinLevel ==
  pc = "done" =>
    \A table \in TableSet :
       Productive(table) # {} =>
         /\ table \in DOMAIN affected_records
         /\ \A i \in Productive(table) :
               affected_records[table].level <= dequeue_log[i].item.level

\* the statement buffer in its current form: as collected, as optimized, as
\* left by the NULL-foreign-key resolver
CurrentBuffer ==
  IF pc \in {"bfs", "optimize"} THEN statement_buffer
  ELSE IF pc = "fixnull" THEN optimized_statements
  ELSE IF pc \in {"write", "footer", "done"} THEN fixed_statements
  ELSE <<>>

\* the value the text of an INSERT gives to a column
LiteralOf(stmt, column) ==
  IF column \in Range(stmt.columns)
  THEN ParseLiteral(stmt.literals[CHOOSE k \in 1..Len(stmt.columns) : stmt.columns[k] = column])
  ELSE None

\* C4: in existence-checked mode, at every point of a run, no INSERT of the
\* statement buffer carries, in a foreign-key column, a value that the skip
\* registry holds for the referenced column of the parent table, whether
\* the INSERT was emitted before or after the value was recorded.
C4_NoInsertReferencesSkipped ==
  ~use_conflict_resolution =>
  \A i \in Inserts(CurrentBuffer) :
    \A k \in 1..Len(GraphEdges(cascade_graph)) :
      LET stmt == CurrentBuffer[i]
          e == GraphEdges(cascade_graph)[k]
      IN e.child.child_table = stmt.table =>
           LiteralOf(stmt, e.child.local_column)
              \notin RegistryGet(skipped_records, e.parent_table, e.child.referenced_column)

\* every value a registry holds is still held by the other
RegistryIncluded(a, b) ==
  \A t \in DOMAIN a :
     /\ t \in DOMAIN b
     /\ \A c \in DOMAIN a[t] : c \in DOMAIN b[t] /\ a[t][c] \subseteq b[t][c]

\* C5: during a run the restored and skipped registries only grow: no step
\* of the run removes a table, a column or a value from either of them.
C5_RegistriesOnlyGrow ==
  [][run' = run =>
       /\ RegistryIncluded(restored_records, restored_records')
       /\ RegistryIncluded(skipped_records, skipped_records')]_vars

\* both registries are in use, and one of them has been added to twice
C5_Witness ==
  /\ skipped_records # EmptyDict
  /\ \E t \in DOMAIN restored_records : \E c \in DOMAIN restored_records[t] :
        Cardinality(restored_records[t][c]) >= 2

\* the number of rows of the source
RECURSIVE RowCount(_, _)
RowCount(db, tables) ==
  IF Len(tables) = 0 THEN 0 ELSE Len(db[Head(tables)]) + RowCount(db, Tail(tables))

\* C6: discovery terminates, whatever the (finite) schema graph and source
\* data, rows referencing each other in a cycle included.  The rows an item
\* finds at level L hang on a chain of L+1 source rows, each referencing the
\* one before it, down to the root row; discovery that terminates finds no
\* row again through a cycle of references, so every level at which it finds
\* rows is below the number of source rows.
C6_DiscoveryBounded ==
  \A i \in Queried :
     dequeue_log[i].record_count > 0
        => dequeue_log[i].item.level < RowCount(sourceDb, get_all_tables)

\* the INSERTs of the second run's script that insert again a row (same
\* table, same primary key) the executed first script inserted
ReEmitted ==
  { i \in Inserts(fixed_statements) :
      \E a \in applied_rows :
         /\ a[1] = fixed_statements[i].table
         /\ \A k \in 1..Len(CatalogPrimaryKey(a[1])) :
               a[2][CatalogPrimaryKey(a[1])[k]]
                 = RowOfInsert(fixed_statements[i])[CatalogPrimaryKey(a[1])[k]] }

SecondScriptReady ==
  run = 2 /\ prod_current_conn = "ok" /\ pc \in {"write", "footer", "done"}

InsertLines ==
  { i \in 1..Len(sql_file) : sql_file[i].kind = "sql" /\ sql_file[i].stmt.type = "INSERT" }

\* C8: in the emitted script, for every INSERT and every foreign-key column
\* of it with a non-NULL value, the referenced parent row is in the target
\* already or is inserted by an INSERT earlier in the script.
C8_ParentsBeforeChildren ==
  pc = "done" =>
    \A i \in InsertLines : \A fk \in fk_constraints :
      LET stmt == sql_file[i].stmt
          v == LiteralOf(stmt, fk.local_column)
      IN (fk.table = stmt.table /\ v # None) =>
           \/ \E r \in Range(targetDb[fk.referenced_table]) : r[fk.referenced_column] = v
           \/ \E j \in InsertLines :
                 /\ j < i
                 /\ sql_file[j].stmt.table = fk.referenced_table
                 /\ LiteralOf(sql_file[j].stmt, fk.referenced_column) = v

\* C9: every script of either entry point has BEGIN; before all data
\* statements and ROLLBACK; as its last statement, and no COMMIT statement
\* (the word occurs in the usage comments only).
C9_ScriptFrame ==
  /\ \A i \in 1..Len(sql_file) :
        sql_file[i].kind = "sql" => \E b \in 1..(i - 1) : sql_file[b].text = "BEGIN;"
  /\ \A i \in 1..Len(sql_file) : ~StartsWith(sql_file[i].text, "COMMIT")
  /\ pc = "done" => sql_file[Len(sql_file)].text = "ROLLBACK;"

\* a finished export script with data statements
C9_Witness ==
  /\ pc = "done"
  /\ entry = "export"
  /\ InsertLines # {}
  /\ sql_file[Len(sql_file)].text = "ROLLBACK;"

\* the rows a dequeued item handed to the record pipeline
PipelineRows(item) ==
  IF item.table = PERSON
  THEN DropBlankEmail(SelectRows(sourceDb, item.table, item.where))
  ELSE SelectRows(sourceDb, item.table, item.where)

\* C10: in conflict-resolution mode no row is dropped by the existence,
\* skipped-parent or uniqueness checks, nothing is added to the skip
\* registry, and every INSERT of the final script ends with
\* ON CONFLICT DO NOTHING.
C10_ConflictModeKeepsEveryRow ==
  use_conflict_resolution =>
    /\ skipped_records = EmptyDict
    /\ pc \in {"bfs", "optimize"} =>
         \A i \in Queried : \A r \in Range(PipelineRows(dequeue_log[i].item)) :
            \E k \in Inserts(statement_buffer) :
               /\ statement_buffer[k].table = dequeue_log[i].item.table
               /\ \A c \in DOMAIN r : statement_buffer[k].values[c] = r[c]
    /\ pc = "done" =>
         \A i \in InsertLines : EndsWith(sql_file[i].text, " ON CONFLICT DO NOTHING;")

\* the row is in the target (same primary key)
InTarget(table, r) ==
  \E q \in Range(targetDb[table]) :
     \A k \in 1..Len(CatalogPrimaryKey(table)) :
        q[CatalogPrimaryKey(table)[k]] = r[CatalogPrimaryKey(table)[k]]

\* the row is absent from the target and matches a registered uniqueness
\* rule against a target row
UniqueConflict(table, r) ==
  /\ ~InTarget(table, r)
  /\ check_unique_constraint_violation("ok", targetDb, table, r)

\* the buffer holds an INSERT for the row
HasInsert(buffer, table, r) ==
  \E k \in Inserts(buffer) :
     buffer[k].table = table /\ \A c \in DOMAIN r : buffer[k].values[c] = r[c]

\* the buffer holds an UPDATE addressed to the row
HasUpdate(buffer, table, r) ==
  \E k \in 1..Len(buffer) :
     /\ buffer[k].type = "UPDATE"
     /\ buffer[k].table = table
     /\ \A c \in DOMAIN buffer[k].where : c \in DOMAIN r /\ buffer[k].where[c] = r[c]

\* the row was handed to the record pipeline by one of the dequeues of idxs
ProcessedIn(idxs, table, r) ==
  \E i \in idxs \cap Queried :
     dequeue_log[i].item.table = table /\ r \in Range(PipelineRows(dequeue_log[i].item))

\* C11: in existence-checked mode, every processed row that is absent from
\* the target and matches a registered uniqueness rule against a target row
\* is dropped (no INSERT, no UPDATE), each of its non-null primary-key values
\* is in the skip registry, and every row processed later that references it
\* through a graph edge is dropped too.
C11_UniqueConflictCascades ==
  (~use_conflict_resolution /\ prod_current_conn = "ok" /\ pc \in {"bfs", "optimize"}) =>
    \A i \in Queried : \A r \in Range(PipelineRows(dequeue_log[i].item)) :
      LET table == dequeue_log[i].item.table IN
        UniqueConflict(table, r) =>
          /\ ~HasInsert(statement_buffer, table, r)
          /\ ~HasUpdate(statement_buffer, table, r)
          /\ \A k \in 1..Len(CatalogPrimaryKey(table)) :
                r[CatalogPrimaryKey(table)[k]] # None =>
                  r[CatalogPrimaryKey(table)[k]]
                     \in RegistryGet(skipped_records, table, CatalogPrimaryKey(table)[k])
          /\ \A j \in Queried : \A e \in Range(GraphEdges(cascade_graph)) :
                (j > i /\ e.parent_table = table
                   /\ e.child.child_table = dequeue_log[j].item.table) =>
                  \A r2 \in Range(PipelineRows(dequeue_log[j].item)) :
                     (r2[e.child.local_column] = r[e.child.referenced_column]
                        /\ ~ProcessedIn(1..i, dequeue_log[j].item.table, r2))
                       => ~HasInsert(statement_buffer, dequeue_log[j].item.table, r2)

\* the foreign-key columns of a table
FkColumnsOf(table) == { fk.local_column : fk \in { f \in fk_constraints : f.table = table } }

\* the text an INSERT has in its VALUES list for a column
RawLiteral(stmt, column) ==
  stmt.literals[CHOOSE k \in 1..Len(stmt.columns) : stmt.columns[k] = column]

\* the resolution chain left the column of the row unresolved: the row has a
\* value for it, and every INSERT collected for the row has NULL in its place
LeftUnresolved(table, values, column) ==
  /\ values[column] # None
  /\ \A k \in Inserts(statement_buffer) :
        (statement_buffer[k].table = table /\ statement_buffer[k].values = values)
           => RawLiteral(statement_buffer[k], column) = "NULL"

SourceRowsOf(stmt) ==
  { r \in Range(sourceDb[stmt.table]) :
      \A k \in 1..Len(CatalogPrimaryKey(stmt.table)) :
         stmt.values[CatalogPrimaryKey(stmt.table)[k]] = r[CatalogPrimaryKey(stmt.table)[k]] }

C13_NoUnmatchedUpdateEmitted ==
  /\ pc \in {"fixnull", "write", "footer", "done"} =>
        \A k \in 1..Len(optimized_statements) : optimized_statements[k].type # "UPDATE"
  /\ \A i \in 1..Len(sql_file) :
        sql_file[i].kind = "sql" => sql_file[i].stmt.type # "UPDATE"

\* the buffer holds, among its first n statements, the INSERT of the parent
\* row that key = <<table, column, value>> names
ParentAtFront(buffer, n, key) ==
  \E i \in 1..n :
     /\ buffer[i].type = "INSERT"
     /\ buffer[i].table = key[1]
     /\ DictGet(buffer[i].values, key[2], None) = key[3]

\* C14: when the queue is exhausted, missing-parent discovery leaves the
\* statements emitted so far as a suffix of the buffer and, for every
\* foreign-key value of an emitted INSERT whose parent row is absent from the
\* target, present in the source and not in the buffer, puts that parent
\* row's INSERT in front of them.
C14_MissingParentsPrepended ==
  [][ (pc = "bfs" /\ pc' = "optimize") =>
        \E n \in 0..Len(statement_buffer') :
           /\ Len(statement_buffer') = n + Len(statement_buffer)
           /\ SubSeq(statement_buffer', n + 1, Len(statement_buffer')) = statement_buffer
           /\ \A key \in MissingParentCalls(fk_constraints, statement_buffer,
                                            prod_current_conn, targetDb, sourceDb) :
                 ParentAtFront(statement_buffer', n, key) ]_vars

\* C15: during discovery the affected-records output is append-only: a step
\* that dequeues a further (table, predicate) pair leaves every entry already
\* recorded in place and unchanged, so that each dequeued pair keeps its own
\* entry.
C15_AffectedRecordsAppendOnly ==
  [][ (pc = "bfs" /\ pc' = "bfs") =>
        \A t \in DOMAIN affected_records :
           /\ t \in DOMAIN affected_records'
           /\ affected_records'[t] = affected_records[t] ]_vars

\* the step dequeues an item whose query ran and returned no rows
ZeroRowStep ==
  /\ pc = "bfs"
  /\ Len(dequeue_log') = Len(dequeue_log) + 1
  /\ dequeue_log'[Len(dequeue_log')].queried
  /\ ~dequeue_log'[Len(dequeue_log')].raised
  /\ dequeue_log'[Len(dequeue_log')].record_count = 0

RaisedStep ==
  /\ pc = "bfs"
  /\ Len(dequeue_log') = Len(dequeue_log) + 1
  /\ dequeue_log'[Len(dequeue_log')].raised

C18_UncheckableRowsEmitted ==
  prod_current_conn # "ok" =>
    /\ skipped_records = EmptyDict
    /\ pc \in {"bfs", "optimize"} =>
         \A i \in Queried :
            ~dequeue_log[i].raised =>
               \A r \in Range(PipelineRows(dequeue_log[i].item)) :
                  HasInsert(statement_buffer, dequeue_log[i].item.table, r)

\* main() with a target whose queries all raise has emitted a row of a table
\* that has a primary key and a uniqueness rule
C18_Witness ==
  /\ prod_current_conn = "broken"
  /\ pc = "optimize"
  /\ \E r \in Range(sourceDb[ACCOUNT]) : HasInsert(statement_buffer, ACCOUNT, r)

\* C19: no item of the queue comes from an edge with an 'Unknown' field:
\* neither its table nor a column of its predicate is the sentinel that
\* parse_foreign_key_details gives for what it could not parse.
C19_NoUnknownEdgeTraversed ==
  \A i \in 1..Len(processing_queue) :
     /\ processing_queue[i].table # Unknown
     /\ processing_queue[i].where.kind = "in" =>
           /\ processing_queue[i].where.local_column # Unknown
           /\ processing_queue[i].where.referenced_column # Unknown

RECURSIVE WalkLevel(_, _, _)
\* the tables at the end of a walk of k edges from root
WalkLevel(graph, root, k) ==
  IF k = 0 THEN {root}
  ELSE UNION { { GraphChildren(graph, p)[i].child_table :
                   i \in 1..Len(GraphChildren(graph, p)) } :
               p \in WalkLevel(graph, root, k - 1) }

\* the tables reachable from root by at least one edge
Reachable(graph, root) ==
  UNION { WalkLevel(graph, root, k) : k \in 1..Cardinality(TableSet) }

\* the length of a shortest path of at least one edge from root to t
MinDepth(graph, root, t) ==
  CHOOSE k \in 1..Cardinality(TableSet) :
     /\ t \in WalkLevel(graph, root, k)
     /\ \A j \in 1..(k - 1) : t \notin WalkLevel(graph, root, j)

\* C20: count_affected_subtables_recursive(graph, root) returns exactly the
\* tables reachable from root by at least one edge, each with the length of
\* a shortest path from root as its depth, whatever the order of the child
\* lists.
C20_CountIsMinDepth ==
  pc = "counted" =>
    /\ DOMAIN possible_affected_subtables = Reachable(cascade_graph, ENTITY)
    /\ \A t \in DOMAIN possible_affected_subtables :
          possible_affected_subtables[t].depth = MinDepth(cascade_graph, ENTITY, t)

\* the paths of the graph that start at root and meet no table twice
SimplePaths(graph, root) ==
  { p \in UNION { [1..n -> TableSet] : n \in 1..Cardinality(TableSet) } :
      /\ p[1] = root
      /\ \A i \in 1..Len(p) : \A j \in 1..Len(p) : i # j => p[i] # p[j]
      /\ \A i \in 1..(Len(p) - 1) :
            \E k \in 1..Len(GraphChildren(graph, p[i])) :
               GraphChildren(graph, p[i])[k].child_table = p[i + 1] }

\* C21: count_affected_subtables_recursive ends on every graph, cyclic ones
\* included: the branches it expands are exactly the paths from the root
\* that meet no table twice (no table is expanded again on its own branch,
\* and a table expanded on one branch is expanded on every other branch
\* that reaches it), and every reachable table is recorded.
C21_BranchesAreSimplePaths ==
  pc = "counted" =>
    /\ CountBranches(cascade_graph, ENTITY, {}, <<ENTITY>>) = SimplePaths(cascade_graph, ENTITY)
    /\ DOMAIN possible_affected_subtables = Reachable(cascade_graph, ENTITY)

\* a cyclic graph in which account.physical_account is expanded on two
\* branches and the root is recorded through the cycle
C21_Witness ==
  /\ pc = "counted"
  /\ <<ENTITY, ACCOUNT>> \in CountBranches(cascade_graph, ENTITY, {}, <<ENTITY>>)
  /\ <<ENTITY, PERSON, ACCOUNT>> \in CountBranches(cascade_graph, ENTITY, {}, <<ENTITY>>)
  /\ ENTITY \in DOMAIN possible_affected_subtables

\* the value is in the registry for the key column the constraint references
InRegistry(registry, fk, value) ==
  value \in RegistryGet(registry, fk.referenced_table, fk.referenced_column)

\* the target can be queried and holds the row the constraint references
ParentInTarget(fk, value) ==
  /\ prod_current_conn = "ok"
  /\ \E r \in Range(targetDb[fk.referenced_table]) : r[fk.referenced_column] = value

\* the statement after position k of the buffer is the UPDATE that gives the
\* column its value
CompanionSets(buffer, k, column, value) ==
  /\ k + 1 <= Len(buffer)
  /\ buffer[k + 1].type = "UPDATE"
  /\ buffer[k + 1].table = buffer[k].table
  /\ column \in DOMAIN buffer[k + 1].updates
  /\ buffer[k + 1].updates[column] = value

\* C22: every INSERT a discovery step appends has, in each foreign-key
\* column, the quoted real value when the value is not null and (a) the
\* parent table was already processed, or (b) the value is in the restored
\* registry, or (c) the row it references is in the target; NULL when the
\* value is null or none of the three holds; and an INSERT with NULL for a
\* non-null value is followed by the UPDATE that sets it.  The registry of
\* (b) is the one of the moment the row is processed: it holds at least
\* what it held before the step and at most what it holds after it.
C22_ForeignKeyResolution ==
  [][ (pc = "bfs" /\ Len(statement_buffer') > Len(statement_buffer)) =>
        \A k \in (Len(statement_buffer) + 1)..Len(statement_buffer') :
           statement_buffer'[k].type = "INSERT" =>
              \A fk \in { f \in fk_constraints : f.table = statement_buffer'[k].table } :
                 LET value == statement_buffer'[k].values[fk.local_column]
                     literal == RawLiteral(statement_buffer'[k], fk.local_column)
                     sure == \/ fk.referenced_table \in processed_tables
                             \/ InRegistry(restored_records, fk, value)
                             \/ ParentInTarget(fk, value)
                     maybe == InRegistry(restored_records', fk, value)
                 IN /\ literal \in {"NULL", "'" \o value \o "'"}
                    /\ value = None => literal = "NULL"
                    /\ (value # None /\ sure) => literal # "NULL"
                    /\ (value # None /\ ~sure /\ ~maybe) => literal = "NULL"
                    /\ (value # None /\ literal = "NULL") =>
                          CompanionSets(statement_buffer', k, fk.local_column, value) ]_vars

\* discovery has emitted a transaction INSERT that carries its account key
\* only because the account row is in the target (the account table is not
\* processed, the key is not in the restored registry), and its entity key
\* because the entity table was processed
C22_Witness ==
  /\ pc = "bfs"
  /\ \E k \in Inserts(statement_buffer) :
        /\ statement_buffer[k].table = TXN
        /\ RawLiteral(statement_buffer[k], "account_id") # "NULL"
        /\ ACCOUNT \notin processed_tables
        /\ ~InRegistry(restored_records, FkTxnAccount, statement_buffer[k].values["account_id"])
        /\ ParentInTarget(FkTxnAccount, statement_buffer[k].values["account_id"])
        /\ FkTxnEntity \in fk_constraints
        /\ ENTITY \in processed_tables
        /\ RawLiteral(statement_buffer[k], "entity_id") # "NULL"

\* the foreign-key columns of the INSERT at position k that were rendered
\* NULL although the row has a value for them
DeferredColumns(buffer, k) ==
  { c \in FkColumnsOf(buffer[k].table) :
      buffer[k].values[c] # None /\ RawLiteral(buffer[k], c) = "NULL" }

\* C23: a discovery step appends an UPDATE only directly after the INSERT
\* of the same row appended by the same step, and only when that INSERT has
\* a deferred foreign-key value; the UPDATE then assigns exactly the
\* deferred columns their values.  A row that is dropped, or whose INSERT
\* was already emitted, adds no UPDATE.
C23_UpdateOnlyWithItsInsert ==
  [][ pc = "bfs" =>
        \A k \in (Len(statement_buffer) + 1)..Len(statement_buffer') :
           statement_buffer'[k].type = "UPDATE" =>
              /\ k - 1 > Len(statement_buffer)
              /\ statement_buffer'[k - 1].type = "INSERT"
              /\ statement_buffer'[k - 1].table = statement_buffer'[k].table
              /\ DeferredColumns(statement_buffer', k - 1) # {}
              /\ DOMAIN statement_buffer'[k].updates = DeferredColumns(statement_buffer', k - 1)
              /\ \A c \in DeferredColumns(statement_buffer', k - 1) :
                    statement_buffer'[k].updates[c] = statement_buffer'[k - 1].values[c] ]_vars

\* position k of the buffer holds an INSERT directly followed by the
\* companion UPDATE of the same table
HasCompanion(buffer, k) ==
  /\ buffer[k].type = "INSERT"
  /\ k + 1 <= Len(buffer)
  /\ buffer[k + 1].type = "UPDATE"
  /\ buffer[k + 1].table = buffer[k].table

\* the values of the INSERT with the assignments of the UPDATE applied
WithAssignments(insert_stmt, update_stmt) ==
  [c \in DOMAIN insert_stmt.values |->
     IF c \in DOMAIN update_stmt.updates THEN update_stmt.updates[c]
     ELSE insert_stmt.values[c]]

\* C24: once the optimizer has run, every INSERT that discovery emitted with
\* a companion UPDATE is in the optimizer's output as an INSERT that carries
\* the UPDATE's assignments, and the UPDATE itself is not in the output;
\* every other INSERT is in the output unchanged; the output has as many
\* INSERTs as the buffer.
C24_CompanionsMerged ==
  pc = "fixnull" =>
    /\ \A k \in 1..Len(statement_buffer) :
          HasCompanion(statement_buffer, k) =>
            /\ \E j \in Inserts(optimized_statements) :
                  /\ optimized_statements[j].table = statement_buffer[k].table
                  /\ optimized_statements[j].values =
                       WithAssignments(statement_buffer[k], statement_buffer[k + 1])
                  /\ \A c \in DOMAIN statement_buffer[k + 1].updates :
                        RawLiteral(optimized_statements[j], c) # "NULL"
            /\ \A j \in 1..Len(optimized_statements) :
                  optimized_statements[j].type = "UPDATE" =>
                     optimized_statements[j].statement # statement_buffer[k + 1].statement
    /\ \A k \in Inserts(statement_buffer) :
          ~HasCompanion(statement_buffer, k) =>
             \E j \in 1..Len(optimized_statements) :
                optimized_statements[j] = statement_buffer[k]
    /\ Cardinality(Inserts(optimized_statements)) = Cardinality(Inserts(statement_buffer))

\* the position of the first INSERT of the table in the statements, or 0
FirstInsertOf(statements, table) ==
  LET ins == { k \in Inserts(statements) : statements[k].table = table }
  IN IF ins = {} THEN 0 ELSE CHOOSE k \in ins : \A j \in ins : k <= j

\* the resolver changed the value of column c of the INSERT at position k
Substituted(k, c) ==
  /\ optimized_statements[k].type = "INSERT"
  /\ c \in DOMAIN optimized_statements[k].values
  /\ fixed_statements[k].values[c] # optimized_statements[k].values[c]

\* C25: when the resolver has put a value into a foreign-key column of an
\* INSERT, the column is a NULL foreign key of an edge of the graph, the
\* parent table of that edge has an INSERT in the statements the resolver
\* was given, and the value is the quoted value of the referenced key column
\* of the first INSERT of that parent table.
C25_SubstitutedIsFirstParentKey ==
  pc = "write" =>
    \A k \in Inserts(optimized_statements) :
       \A c \in DOMAIN optimized_statements[k].values :
          Substituted(k, c) =>
             /\ optimized_statements[k].values[c] = None
             /\ \E e \in Range(GraphEdges(cascade_graph)) :
                   /\ e.child.child_table = optimized_statements[k].table
                   /\ e.child.local_column = c
                   /\ FirstInsertOf(optimized_statements, e.parent_table) # 0
                   /\ fixed_statements[k].values[c] =
                        "'" \o optimized_statements[FirstInsertOf(optimized_statements,
                                                                  e.parent_table)]
                                 .values[e.child.referenced_column] \o "'"

RECURSIVE QuotesDoubled(_)
\* every single-quote character of s is one of a pair of adjacent ones
QuotesDoubled(s) ==
  IF Len(s) = 0 THEN TRUE
  ELSE IF Head(s) # "'" THEN QuotesDoubled(Tail(s))
  ELSE Len(s) >= 2 /\ Head(Tail(s)) = "'" /\ QuotesDoubled(Tail(Tail(s)))

\* a single-quoted SQL string literal whose embedded quotes are doubled
WellQuoted(literal) ==
  /\ Len(literal) >= 2
  /\ StartsWith(literal, "'")
  /\ EndsWith(literal, "'")
  /\ QuotesDoubled(SubSeq(literal, 2, Len(literal) - 1))

\* C26: in the script as written, every string value of every INSERT, in
\* foreign-key columns and in the other columns, is a single-quoted literal
\* whose embedded single quotes are doubled.
C26_StringsQuotedAndEscaped ==
  \A i \in 1..Len(sql_file) :
     (sql_file[i].kind = "sql" /\ sql_file[i].stmt.type = "INSERT") =>
        \A k \in 1..Len(sql_file[i].stmt.columns) :
           LET stmt == sql_file[i].stmt
               c == stmt.columns[k]
           IN (stmt.kinds[c] = "str" /\ stmt.values[c] # None) =>
                 WellQuoted(stmt.literals[k])

\* the dequeued item at position i of the log was queried and returned rows
ReturnedRows(log, i) ==
  log[i].queried /\ ~log[i].raised /\ log[i].record_count > 0

\* C27: every discovery step takes the item at the head of the queue and
\* appends the new items at its tail; the levels of the items dequeued so far
\* never decrease; and every item appended is the child of the item just
\* dequeued, whose rows were returned and processed and whose table is then
\* marked processed.
C27_FifoLevelsAndParentFirst ==
  [][ (pc = "bfs" /\ processing_queue' # processing_queue) =>
        LET n == Len(dequeue_log')
            first == Len(processing_queue)
        IN /\ n = Len(dequeue_log) + 1
           /\ dequeue_log'[n].item = Head(processing_queue)
           /\ SubSeq(processing_queue', 1, first - 1) = Tail(processing_queue)
           /\ \A i, j \in 1..n :
                 i < j => dequeue_log'[i].item.level <= dequeue_log'[j].item.level
           /\ \A k \in first..Len(processing_queue') :
                 /\ ReturnedRows(dequeue_log', n)
                 /\ processing_queue'[k].where.kind = "in"
                 /\ processing_queue'[k].where.table = dequeue_log'[n].item.table
                 /\ processing_queue'[k].where.where = dequeue_log'[n].item.where
                 /\ processing_queue'[k].level >= dequeue_log'[n].item.level
                 /\ dequeue_log'[n].item.table \in processed_tables'
                 /\ TableConditionKey(dequeue_log'[n].item.table,
                                      dequeue_log'[n].item.conditions) \in visited_tables' ]_vars

\* discovery has dequeued two items of one level and then one of the next
\* level, and items of a processed parent are still waiting
C27_Witness ==
  /\ pc = "bfs"
  /\ Len(processing_queue) > 0
  /\ Head(processing_queue).where.kind = "in"
  /\ Head(processing_queue).where.table \in processed_tables
  /\ \E i, j, k \in 1..Len(dequeue_log) :
        /\ i < j /\ j < k
        /\ ReturnedRows(dequeue_log, i) /\ ReturnedRows(dequeue_log, j)
        /\ ReturnedRows(dequeue_log, k)
        /\ dequeue_log[i].item.level = dequeue_log[j].item.level
        /\ dequeue_log[j].item.level < dequeue_log[k].item.level

\* the outgoing edges of the table in the graph, in the graph's order
OutgoingEdges(graph, table) ==
  LET at == { i \in 1..Len(graph) : graph[i].parent = table }
  IN IF at = {} THEN <<>> ELSE graph[CHOOSE i \in at : TRUE].children

\* local IN (SELECT DISTINCT referenced FROM T WHERE p), the local columns
\* in parentheses when there are several
ChildPredicate(edge, table, conditions) ==
  LET inner == " IN (SELECT DISTINCT " \o edge.referenced_column \o " FROM " \o table
                 \o " WHERE " \o conditions \o ")"
  IN IF Len(SplitColumns(edge.local_column)) > 1
     THEN "(" \o edge.local_column \o ")" \o inner
     ELSE edge.local_column \o inner

\* C28: a discovery step whose item (T, p, L) returned at least one row
\* appends to the queue exactly one item for every outgoing edge of T, in
\* the order of the edges, with the edge's child table, level L + 1 and the
\* predicate over the edge's columns (the local columns in parentheses when
\* the key has several); any other discovery step appends nothing.
C28_OneItemPerEdge ==
  [][ (pc = "bfs" /\ processing_queue' # processing_queue) =>
        LET current == Head(processing_queue)
            n == Len(dequeue_log')
            new == SubSeq(processing_queue', Len(processing_queue), Len(processing_queue'))
            edges == OutgoingEdges(cascade_graph, current.table)
        IN IF ReturnedRows(dequeue_log', n)
           THEN /\ Len(new) = Len(edges)
                /\ \A k \in 1..Len(edges) :
                      /\ new[k].table = edges[k].child_table
                      /\ new[k].level = current.level + 1
                      /\ new[k].conditions =
                           ChildPredicate(edges[k], current.table, current.conditions)
           ELSE new = <<>> ]_vars

\* the rows of the account table were returned, and the queue holds the two
\* items of its two edges: one over a single column, one over a two-column key
C28_Witness ==
  /\ pc = "bfs"
  /\ Len(dequeue_log) > 0
  /\ ReturnedRows(dequeue_log, Len(dequeue_log))
  /\ dequeue_log[Len(dequeue_log)].item.table = ACCOUNT
  /\ Len(processing_queue) >= 2
  /\ \E i, j \in 1..Len(processing_queue) :
        /\ i # j
        /\ processing_queue[i].level = dequeue_log[Len(dequeue_log)].item.level + 1
        /\ processing_queue[j].level = processing_queue[i].level
        /\ StartsWith(processing_queue[i].conditions, "account_id IN (SELECT DISTINCT account_id FROM")
        /\ StartsWith(processing_queue[j].conditions,
                      "(account_id, entity_id) IN (SELECT DISTINCT account_id, person_id FROM")

\* the statements of the sequence that are about the person row: INSERTs
\* with its key, UPDATEs keyed or assigned with it
AboutPerson(statements, person_id) ==
  { k \in 1..Len(statements) :
      /\ statements[k].table = PERSON
      /\ IF statements[k].type = "INSERT"
         THEN statements[k].values["person_id"] = person_id
         ELSE \/ DictGet(statements[k].where, "person_id", None) = person_id
              \/ DictGet(statements[k].updates, "person_id", None) = person_id }

\* C29: a person.person row of the source whose email is null or blank has
\* no INSERT and no UPDATE in the statement buffer, in the optimizer's and
\* the resolver's output or in the script, and its key is in neither the
\* restored nor the skipped registry.
C29_BlankEmailRowsTakeNoPart ==
  \A r \in Range(sourceDb[PERSON]) :
     (r.email = None \/ AllSpaces(r.email)) =>
        /\ AboutPerson(statement_buffer, r.person_id) = {}
        /\ AboutPerson(optimized_statements, r.person_id) = {}
        /\ AboutPerson(fixed_statements, r.person_id) = {}
        /\ \A i \in 1..Len(sql_file) :
              (sql_file[i].kind = "sql" /\ sql_file[i].table = PERSON) =>
                 sql_file[i].stmt.values["person_id"] # r.person_id
        /\ r.person_id \notin RegistryGet(restored_records, PERSON, "person_id")
        /\ r.person_id \notin RegistryGet(skipped_records, PERSON, "person_id")

\* the person table was queried, its only row has a blank email, and the run
\* went on to write the script
C29_Witness ==
  /\ pc = "done"
  /\ \E r \in Range(sourceDb[PERSON]) : r.email = BlankEmail
  /\ \E i \in 1..Len(dequeue_log) :
        /\ dequeue_log[i].item.table = PERSON
        /\ dequeue_log[i].queried
        /\ dequeue_log[i].record_count = 1
  /\ \E i \in 1..Len(sql_file) : sql_file[i].kind = "sql"

\* the row of the edge's child table was handed to the record pipeline and
\* dropped there because its foreign key over the edge is in the skip
\* registry: it is absent from the target and has no INSERT
DroppedForSkippedParent(e, r) ==
  /\ ProcessedIn(1..Len(dequeue_log), e.child.child_table, r)
  /\ e.child.local_column \in DOMAIN r
  /\ r[e.child.local_column] # None
  /\ r[e.child.local_column]
       \in RegistryGet(skipped_records, e.parent_table, e.child.referenced_column)
  /\ ~InTarget(e.child.child_table, r)
  /\ ~HasInsert(statement_buffer, e.child.child_table, r)

\* C30: in existence-checked mode, once a row has been dropped because it
\* references a parent recorded in the skip registry, no discovery step
\* emits an INSERT for a row that references the dropped row through a
\* graph edge.
C30_SkippingIsTransitive ==
  [][ (pc = "bfs" /\ ~use_conflict_resolution /\ prod_current_conn = "ok") =>
        \A e1, e2 \in Range(GraphEdges(cascade_graph)) :
           e1.child.child_table = e2.parent_table =>
              \A r \in Range(sourceDb[e1.child.child_table]) :
                 DroppedForSkippedParent(e1, r) =>
                    \A g \in Range(sourceDb[e2.child.child_table]) :
                       (/\ e2.child.local_column \in DOMAIN g
                        /\ e2.child.referenced_column \in DOMAIN r
                        /\ g[e2.child.local_column] # None
                        /\ g[e2.child.local_column] = r[e2.child.referenced_column]) =>
                          (HasInsert(statement_buffer', e2.child.child_table, g)
                             => HasInsert(statement_buffer, e2.child.child_table, g)) ]_vars

\* the registry value is the value of the column in an INSERT of the table
\* in the buffer
ValueInserted(buffer, table, column, value) ==
  \E k \in Inserts(buffer) :
     /\ buffer[k].table = table
     /\ column \in DOMAIN buffer[k].values
     /\ buffer[k].values[column] = value

\* the non-null primary-key values of the INSERT are in the registry
KeysRegistered(registry, undetected, stmt) ==
  LET pk_columns == get_primary_key_columns_from_constraints(undetected, stmt.table)
  IN \A i \in 1..Len(pk_columns) :
        (pk_columns[i] \in DOMAIN stmt.values /\ stmt.values[pk_columns[i]] # None)
          => stmt.values[pk_columns[i]] \in RegistryGet(registry, stmt.table, pk_columns[i])

\* C31: at every point of the discovery run, every value of restored_records
\* for a table and a primary-key column is the value of that column in an
\* INSERT of the table in the statement buffer, and every INSERT of the
\* buffer has its non-null primary-key values in restored_records (a table
\* whose primary key is not detected has no primary-key column).
C31_RegistryMatchesBuffer ==
  pc = "bfs" =>
    /\ \A t \in DOMAIN restored_records :
          \A c \in DOMAIN restored_records[t] :
             \A v \in restored_records[t][c] :
                ValueInserted(statement_buffer, t, c, v)
    /\ \A k \in Inserts(statement_buffer) :
          KeysRegistered(restored_records, pk_undetected, statement_buffer[k])

\* two INSERTs of one table with a detected primary key in the buffer, and a
\* table with an undetected primary key that has an INSERT
C31_Witness ==
  /\ pc = "bfs"
  /\ \E j, k \in Inserts(statement_buffer) :
        /\ j # k
        /\ statement_buffer[j].table = statement_buffer[k].table
        /\ statement_buffer[j].table \notin pk_undetected
        /\ Cardinality(RegistryGet(restored_records, statement_buffer[j].table,
                                   CatalogPrimaryKey(statement_buffer[j].table)[1])) = 2

RECURSIVE SumOver(_, _)
\* the sum of the numbers d[k] for k in keys
SumOver(d, keys) ==
  IF keys = {} THEN 0
  ELSE LET k == CHOOSE x \in keys : TRUE
       IN d[k] + SumOver(d, keys \ {k})

\* sum(level_stats.values())
LevelTotal == SumOver(level_stats, DOMAIN level_stats)

\* total_records = sum(info['record_count'] for info in affected_records.values())
total_records ==
  SumOver([t \in DOMAIN affected_records |-> affected_records[t].record_count],
          DOMAIN affected_records)

\* C32: when the queue is empty at the end of discovery, before the
\* missing-parent discovery, the sum of the per-level row totals equals the
\* total affected-row count, the sum of the record counts of the entries of
\* affected_records.
C32_LevelTotalsSumToTotal ==
  (pc = "bfs" /\ Len(processing_queue) = 0) => LevelTotal = total_records

\* the column is the local column of a graph edge into the table whose parent
\* table has an INSERT among the statements
NullableByParent(statements, graph, table, column) ==
  \E e \in Range(GraphEdges(graph)) :
     /\ e.child.child_table = table
     /\ e.child.local_column = column
     /\ FirstInsertOf(statements, e.parent_table) # 0

\* C33: fix_null_foreign_keys returns as many statements as it was given, in
\* the same order; every UPDATE is returned as it was; and the value written
\* for a column of an INSERT differs from the one given only when the column
\* held NULL and is a foreign key whose parent table has an INSERT among the
\* statements.
C33_OnlyNullForeignKeysChange ==
  pc = "write" =>
    /\ Len(fixed_statements) = Len(optimized_statements)
    /\ \A k \in 1..Len(optimized_statements) :
          /\ fixed_statements[k].type = optimized_statements[k].type
          /\ fixed_statements[k].table = optimized_statements[k].table
          /\ optimized_statements[k].type = "UPDATE" =>
                fixed_statements[k] = optimized_statements[k]
          /\ optimized_statements[k].type = "INSERT" =>
                /\ fixed_statements[k].columns = optimized_statements[k].columns
                /\ \A i \in 1..Len(optimized_statements[k].columns) :
                      fixed_statements[k].literals[i] # optimized_statements[k].literals[i] =>
                         /\ optimized_statements[k].literals[i] = "NULL"
                         /\ NullableByParent(optimized_statements, cascade_graph,
                                             optimized_statements[k].table,
                                             optimized_statements[k].columns[i])

RECURSIVE LeadingFailures(_)
\* the number of attempts that fail before the first one that passes
LeadingFailures(attempts) ==
  IF Len(attempts) = 0 \/ Head(attempts) = "pass" THEN 0
  ELSE 1 + LeadingFailures(Tail(attempts))

\* the run took the operator prompt and its retry loop is over
ReconnectDone ==
  /\ prod_db_url.given
  /\ prod_db_url.conn # "none"
  /\ pc \notin {"start", "reconnect"}

\* C34: the reconnection after the operator prompt is attempted at most 3
\* times: the loop ends at the first attempt that passes, with the connection
\* that attempt made, and after 3 failed attempts the target connection is
\* None and discovery goes on without existence checks (the rows handed to the
\* pipeline are emitted, nothing is skipped).
C34_ReconnectAtMostThreeTimes ==
  /\ retry_count <= 3
  /\ pc = "reconnect" => retry_count < 3
  /\ ReconnectDone =>
       /\ retry_count = LeadingFailures(prod_db_url.attempts)
       /\ prod_current_conn = IF retry_count = 3 THEN "none" ELSE prod_db_url.conn
       /\ (retry_count = 3 /\ pc \in {"bfs", "optimize"}) =>
            /\ skipped_records = EmptyDict
            /\ \A i \in Queried :
                  ~dequeue_log[i].raised =>
                     \A r \in Range(PipelineRows(dequeue_log[i].item)) :
                        HasInsert(statement_buffer, dequeue_log[i].item.table, r)

\* three attempts failed, and the run ended with a script that inserts the
\* root entity although the target holds it
C34_Witness ==
  /\ pc = "done"
  /\ retry_count = 3
  /\ prod_current_conn = "none"
  /\ \E r \in Range(targetDb[ENTITY]) : HasInsert(fixed_statements, ENTITY, r)

\* a client id of the CSV has a row in account.virtual_account_holder
HasAccount ==
  \E id \in Range(csv_file) : \E h \in virtual_account_holder : h.person_id = id

\* the statements of the log that are not queries
Writes(log) == SelectSeq(log, LAMBDA x : x # "SELECT")

\* C35: when safe_delete_clients makes its account check and a client id
\* loaded from the CSV has a row in account.virtual_account_holder, it ends
\* there: no backup table is created, nothing is backed up, nothing is
\* deleted and no statement other than a query is executed, in dry-run mode
\* and in execute mode alike.
C35_AbortsWhenAClientHasAnAccount ==
  [][ (analyzer_pc = "delete" /\ analyzer_pc' # "delete" /\ HasAccount) =>
        /\ analyzer_pc' = "exit"
        /\ UNCHANGED <<virtual_account_holder, entity_entity, account_backup_table,
                       entity_backup_table, removed, rollback_file>>
        /\ ~account_backup_table'.exists /\ ~entity_backup_table'.exists
        /\ Writes(executed') = <<>> ]_vars

\* execute mode ended at the account check, with an entity row of the client
\* still in place
C35_Witness ==
  /\ analyzer_pc = "exit"
  /\ ~dry_run
  /\ clients_with_accounts # {}
  /\ \E e \in entity_entity : e.entity_id \in clients_with_accounts

\* sys.argv[1:] begins with delete --execute
ExecuteArgs(args) == Len(args) >= 2 /\ args[1] = "delete" /\ args[2] = "--execute"

IsPrefix(log, sequence) ==
  Len(log) <= Len(sequence) /\ \A i \in 1..Len(log) : log[i] = sequence[i]

\* create backup tables, back up rows and commit, delete rows and commit
ExecuteOrder ==
  <<"CREATE", "ALTER", "CREATE", "ALTER", "COMMIT",
    "INSERT", "INSERT", "COMMIT",
    "DELETE", "DELETE", "COMMIT">>

\* the statements executed follow the order of the execute path; a function
\* that raised rolled back and was the last to run
StepsInOrder ==
  LET w == Writes(executed)
  IN /\ \/ IsPrefix(w, ExecuteOrder)
        \/ /\ Len(w) > 0
           /\ w[Len(w)] = "ROLLBACK"
           /\ IsPrefix(SubSeq(w, 1, Len(w) - 1), ExecuteOrder)
           /\ analyzer_pc = "exit"
     /\ rollback_file => w = ExecuteOrder

\* C37: in execute mode the steps run in the order create backup tables, back
\* up rows (committed), delete rows, write rollback script, no deletion is
\* attempted after a failed creation or backup, and every row removed by
\* delete_client_records has a copy in the corresponding backup table, also
\* when another session changed the tables between the two transactions.
C37_EveryRemovedRowIsBackedUp ==
  /\ StepsInOrder
  /\ removed.account \subseteq account_backup_table.rows
  /\ removed.entity \subseteq entity_backup_table.rows

\* the statements on the cluster connection since the last rollback or close
SinceLastEnd(log) ==
  LET ends == { i \in 1..Len(log) : log[i] \in {"ROLLBACK", "COMMIT", "CLOSE"} }
      last == IF ends = {} THEN 0 ELSE CHOOSE i \in ends : \A j \in ends : j <= i
  IN SubSeq(log, last + 1, Len(log))

\* every UPDATE and INSERT is followed by a rollback with nothing but
\* statements in between; what a close discards is a transaction of SELECTs
EndsInRollback(log) ==
  /\ \A i \in 1..Len(log) :
       log[i] \in {"UPDATE", "INSERT"} =>
         \E j \in (i+1)..Len(log) :
           /\ log[j] = "ROLLBACK"
           /\ \A k \in (i+1)..(j-1) : log[k] \in {"SELECT", "UPDATE", "INSERT"}
  /\ \A i \in 1..Len(log) : log[i] # "COMMIT"

\* C38: every transaction on the UAT cluster connection ends in a rollback,
\* on success and on error: no step changes the committed rows of the
\* cluster, nothing is ever committed, every UPDATE and INSERT is rolled
\* back by the function that executed it, a transaction still open has only
\* read, and no transaction is open after main()
C38_ClusterUnchangedNothingCommitted ==
  [][ /\ uat_cluster' = uat_cluster
      /\ EndsInRollback(cluster_log')
      /\ cluster_transaction'.open =>
           /\ cluster_transaction'.view = uat_cluster'
           /\ \A i \in 1..Len(SinceLastEnd(cluster_log')) :
                SinceLastEnd(cluster_log')[i] = "SELECT"
      /\ bene_pc' = "done" =>
           /\ ~cluster_transaction'.open
           /\ cluster_log'[Len(cluster_log')] = "CLOSE" ]_vars

\* main() has ended without an error after an UPDATE that changed an email
\* and three INSERTs, the first of a person the cluster does not hold
C38_Witness ==
  /\ bene_pc = "done"
  /\ bene_fault = None
  /\ UpdateEmails(uat_cluster.person) # uat_cluster.person
  /\ NewBeneficiaries(uat_cluster, get_beneficiaries_person_table(uat_restore)) # {}
  /\ Cardinality({ i \in 1..Len(cluster_log) : cluster_log[i] = "INSERT" }) = 3

====
